---- MODULE Spec2Model ----
(***************************************************************************)
(* A model of the risk-gated trading loop of nanobot's solana_trading      *)
(* tool: PositionManager (positions.py), StrategyMemory (memory.py), the   *)
(* safety gate (safety.py), the market/routing/chain collaborator          *)
(* (service.py) and the orchestrating SolanaTraderTool (tool.py).          *)
(*                                                                         *)
(* Numbers.  Python floats are modelled as exact fixed-point integers:     *)
(*   SOL amounts      in lamports            (1 SOL = LAMPORTS_PER_SOL)    *)
(*   USD prices       in price units         (100 units = $1.00)           *)
(*   USD liquidity and volume in thousands of dollars                      *)
(*   percentages kept by the program (pnl_pct, top_holder_pct)             *)
(*                    in milli-percent       (1000 = 1%)                   *)
(*   risk percentages (stop-loss, take-profit, price impact) in percent    *)
(* The inputs drawn below are chosen so that every quotient the code       *)
(* computes is exact in these units; round(x, n) is modelled as rounding   *)
(* to the matching quantum, ties to even (Python's documented rule).       *)
(***************************************************************************)
EXTENDS Integers, Sequences, FiniteSets, TLC

LAMPORTS_PER_SOL == 1000000000

\* Bounds of the model.
MaxTrades == 2      \* positions opened in one behaviour
MaxCloses == 1      \* positions closed in one behaviour
MaxTime   == 2      \* last value of the logical clock

None == "None"      \* Python's None where the other values are strings
NoTime == 0         \* None as a trade time (time.time() is never 0)
NoReason == <<>>    \* None as an avoid reason

Tokens == {"T1", "T2"}

\* Per-token symbol: T2's symbol contains the text "Error".
Symbol(t) == IF t = "T1" THEN "MEME" ELSE IF t = "T2" THEN "ErrorCoin" ELSE "???"

\* self._config: the caller-supplied configuration, fixed for a behaviour
\* (the two mode flags dry_run and autonomous are variables set by Init).
config ==
  [ risk |->
      [ min_liquidity_usd  |-> 100,         \* $100k
        min_volume_24h_usd |-> 200,         \* $200k
        max_position_sol   |-> 100000000,   \* 0.10 SOL
        max_portfolio_sol  |-> 200000000,   \* 0.20 SOL
        cooldown_seconds   |-> 1,
        min_holder_count   |-> 2,
        max_top_holder_pct |-> 60000,       \* 60%
        max_slippage_bps   |-> 300,
        stop_loss_pct      |-> 10,
        take_profit_pct    |-> 50 ],
    min_trend_score |-> 60 ]

risk == config.risk

(***************************************************************************)
(* Arithmetic helpers                                                      *)
(***************************************************************************)
Abs(x) == IF x < 0 THEN -x ELSE x
Min2(a, b) == IF a <= b THEN a ELSE b
Max2(a, b) == IF a >= b THEN a ELSE b

\* a*b/c (floor) without forming a*b; exact when c divides a*b.
MulDiv(a, b, c) == (a \div c) * b + ((a % c) * b) \div c

\* Python round(): nearest multiple of the quantum q, ties to the even one.
RoundHalfEven(x, q) ==
  LET lo == (x \div q) * q
      r  == x - lo
  IN  IF 2 * r < q THEN lo
      ELSE IF 2 * r > q THEN lo + q
      ELSE IF (lo \div q) % 2 = 0 THEN lo ELSE lo + q

\* round(x, 6) of a SOL amount: quantum 10^-6 SOL = 1000 lamports.
Round6Sol(x) == RoundHalfEven(x, LAMPORTS_PER_SOL \div 1000000)
\* round(x, 2) of a percentage held in milli-percent.
Round2Pct(x) == RoundHalfEven(x, 10)

RECURSIVE SeqSum(_)
SeqSum(s) == IF s = <<>> THEN 0 ELSE Head(s) + SeqSum(Tail(s))

RECURSIVE SeqMax(_)
SeqMax(s) == IF Len(s) = 1 THEN s[1] ELSE Max2(Head(s), SeqMax(Tail(s)))

Last(s, n) == IF Len(s) <= n THEN s ELSE SubSeq(s, Len(s) - n + 1, Len(s))

(***************************************************************************)
(* PositionManager (positions.py)                                          *)
(***************************************************************************)
\* (exit - entry) / entry * 100 if entry else 0, in milli-percent.
PnlPct(exit_price, entry_price) ==
  IF entry_price = 0 THEN 0
  ELSE ((exit_price - entry_price) * 100000) \div entry_price

Position(token, symbol, entry, amount_tokens, sol_in, t, sl, tp, status) ==
  [ token_address |-> token, symbol |-> symbol, entry_price_usd |-> entry,
    amount_tokens |-> amount_tokens, amount_sol_in |-> sol_in,
    entry_time |-> t, stop_loss_price |-> sl, take_profit_price |-> tp,
    status |-> status ]

StopLossPriceMutAbove(entry, stop_loss_pct) == (entry * (100 + stop_loss_pct)) \div 100
StopLossPrice(entry, stop_loss_pct) == (entry * (100 - stop_loss_pct)) \div 100
TakeProfitPrice(entry, take_profit_pct) == (entry * (100 + take_profit_pct)) \div 100

BuyEntry(token, symbol, price, sol_in, t) ==
  [ action |-> "buy", token |-> token, symbol |-> symbol, price |-> price,
    sol_amount |-> sol_in, time |-> t ]

SellEntry(pos, exit_price, sol_out, pnl_sol, pnl_pct, reason, t) ==
  [ action |-> "sell", token |-> pos.token_address, symbol |-> pos.symbol,
    entry_price |-> pos.entry_price_usd, exit_price |-> exit_price,
    sol_in |-> pos.amount_sol_in, sol_out |-> sol_out,
    pnl_sol |-> pnl_sol, pnl_pct |-> pnl_pct, reason |-> reason, time |-> t ]

\* open_position: a state [positions, trade_log, stats] to the next one.
open_position(pm, token, symbol, entry, amount_tokens, sol_in, sl_pct, tp_pct, t) ==
  [ pm EXCEPT
      !.positions = Append(@, Position(token, symbol, entry, amount_tokens, sol_in, t,
                                       StopLossPrice(entry, sl_pct),
                                       TakeProfitPrice(entry, tp_pct), "open")),
      !.trade_log = Append(@, BuyEntry(token, symbol, entry, sol_in, t)) ]

\* Index of the first open position of the token, 0 when there is none.
FirstOpenMutAnyStatus(positions, token) ==
  LET S == { i \in 1..Len(positions) : positions[i].token_address = token }
  IN  IF S = {} THEN 0 ELSE CHOOSE i \in S : \A j \in S : i <= j
FirstOpen(positions, token) ==
  LET S == { i \in 1..Len(positions) :
               positions[i].token_address = token /\ positions[i].status = "open" }
  IN  IF S = {} THEN 0 ELSE CHOOSE i \in S : \A j \in S : i <= j

UpdateStatsMutWinsOnly(stats, pnl_sol) ==
  [ total_pnl_sol |-> Round6Sol(stats.total_pnl_sol + pnl_sol),
    wins   |-> IF pnl_sol >= 0 THEN stats.wins + 1 ELSE stats.wins,
    losses |-> stats.losses ]
UpdateStats(stats, pnl_sol) ==
  [ total_pnl_sol |-> Round6Sol(stats.total_pnl_sol + pnl_sol),
    wins   |-> IF pnl_sol >= 0 THEN stats.wins + 1 ELSE stats.wins,
    losses |-> IF pnl_sol >= 0 THEN stats.losses ELSE stats.losses + 1 ]

\* close_position: closes the first open position of the token, if any.
close_positionMutWith(pm, i, exit_price, sol_out, reason, t) ==
  IF i = 0 THEN pm
  ELSE LET pos     == pm.positions[i]
           pnl_sol == sol_out - pos.amount_sol_in
           pnl_pct == PnlPct(exit_price, pos.entry_price_usd)
       IN  [ positions |-> [pm.positions EXCEPT ![i].status = reason],
             stats     |-> UpdateStats(pm.stats, pnl_sol),
             trade_log |-> Append(pm.trade_log,
                                  SellEntry(pos, exit_price, sol_out, Round6Sol(pnl_sol),
                                            Round2Pct(pnl_pct), reason, t)) ]
close_positionMutReclose(pm, token, exit_price, sol_out, reason, t) ==
  close_positionMutWith(pm, FirstOpenMutAnyStatus(pm.positions, token), exit_price,
                        sol_out, reason, t)
close_positionMutLastOpen(pm, token, exit_price, sol_out, reason, t) ==
  LET S == { i \in 1..Len(pm.positions) :
               pm.positions[i].token_address = token /\ pm.positions[i].status = "open" }
  IN  close_positionMutWith(pm, IF S = {} THEN 0 ELSE CHOOSE i \in S : \A j \in S : j <= i,
                            exit_price, sol_out, reason, t)
close_position(pm, token, exit_price, sol_out, reason, t) ==
  LET i == FirstOpen(pm.positions, token) IN
  IF i = 0 THEN pm
  ELSE LET pos     == pm.positions[i]
           pnl_sol == sol_out - pos.amount_sol_in
           pnl_pct == PnlPct(exit_price, pos.entry_price_usd)
       IN  [ positions |-> [pm.positions EXCEPT ![i].status = reason],
             stats     |-> UpdateStats(pm.stats, pnl_sol),
             trade_log |-> Append(pm.trade_log,
                                  SellEntry(pos, exit_price, sol_out, Round6Sol(pnl_sol),
                                            Round2Pct(pnl_pct), reason, t)) ]

OpenIdx(positions) == { i \in 1..Len(positions) : positions[i].status = "open" }

get_open_positions(positions) == SelectSeq(positions, LAMBDA p : p.status = "open")

RECURSIVE SumSolIn(_)
SumSolIn(ps) == IF ps = <<>> THEN 0 ELSE Head(ps).amount_sol_in + SumSolIn(Tail(ps))

get_total_sol_invested(positions) == SumSolIn(get_open_positions(positions))

get_positions_for_token(positions, token) ==
  SelectSeq(positions, LAMBDA p : p.token_address = token /\ p.status = "open")

\* Time of the newest log entry of the token, NoTime when there is none.
get_last_trade_timeMutOldest(trade_log, token) ==
  LET S == { i \in 1..Len(trade_log) : trade_log[i].token = token }
  IN  IF S = {} THEN NoTime
      ELSE trade_log[CHOOSE i \in S : \A j \in S : i <= j].time
get_last_trade_time(trade_log, token) ==
  LET S == { i \in 1..Len(trade_log) : trade_log[i].token = token }
  IN  IF S = {} THEN NoTime
      ELSE trade_log[CHOOSE i \in S : \A j \in S : j <= i].time

\* One trigger decision: "stopped_out", "took_profit" or None.
TriggerMutStrict(pos, price) ==
  IF price < pos.stop_loss_price THEN "stopped_out"
  ELSE IF price > pos.take_profit_price THEN "took_profit"
  ELSE None
Trigger(pos, price) ==
  IF price <= pos.stop_loss_price THEN "stopped_out"
  ELSE IF price >= pos.take_profit_price THEN "took_profit"
  ELSE None

\* check_stop_loss_take_profit: prices is a function from a set of token
\* addresses (the dict's keys) to prices; the result lists [idx, reason]
\* records in the order of the positions list.
RECURSIVE TriggeredFrom(_, _, _)
TriggeredFrom(positions, prices, i) ==
  IF i > Len(positions) THEN <<>>
  ELSE LET pos  == positions[i]
           rest == TriggeredFrom(positions, prices, i + 1)
       IN  IF pos.status # "open" \/ pos.token_address \notin DOMAIN prices THEN rest
           ELSE LET r == Trigger(pos, prices[pos.token_address])
                IN  IF r = None THEN rest ELSE <<[idx |-> i, reason |-> r]>> \o rest

check_stop_loss_take_profit(positions, prices) == TriggeredFrom(positions, prices, 1)

(***************************************************************************)
(* TradingService (service.py): the collaborator's answers                 *)
(***************************************************************************)
TokenInfo(addr, price, vol, liq, pc5m, pc1h, buys, sells) ==
  [ address |-> addr, symbol |-> Symbol(addr), price_usd |-> price,
    volume_24h |-> vol, liquidity_usd |-> liq, price_change_5m |-> pc5m,
    price_change_1h |-> pc1h, buy_count_5m |-> buys, sell_count_5m |-> sells ]

\* Market profiles [vol, liq, pc5m, pc1h, buys, sells] a snapshot may carry.
Strong   == [vol |-> 1500, liq |-> 250, pc5m |-> 6,  pc1h |-> 15,  buys |-> 8, sells |-> 2]
Weak     == [vol |-> 200,  liq |-> 150, pc5m |-> -6, pc1h |-> -15, buys |-> 3, sells |-> 7]
LowLiq   == [vol |-> 1500, liq |-> 50,  pc5m |-> 6,  pc1h |-> 15,  buys |-> 8, sells |-> 2]
LowBoth  == [vol |-> 10,   liq |-> 50,  pc5m |-> 0,  pc1h |-> 0,   buys |-> 0, sells |-> 0]

Info(addr, price, pf) ==
  TokenInfo(addr, price, pf.vol, pf.liq, pf.pc5m, pf.pc1h, pf.buys, pf.sells)

EntryPrices == {100}
ExitPrices  == {90, 100, 150}

SellPrices  == {150}

\* Snapshots get_token_info returns for an address: before a buy, for the
\* open positions at an exit check, and before a sell.
BuyInfos(addr)  == { Info(addr, p, Strong) : p \in EntryPrices }
ExitInfos(addr) == { Info(addr, p, Strong) : p \in ExitPrices }
SellInfos(addr) == { Info(addr, p, Weak) : p \in SellPrices }

\* getTokenLargestAccounts: the RPC raises, answers with a non-dict or an
\* empty list ("empty"), or with the amounts of the largest accounts.
HolderRpcAll ==
  { [kind |-> "raise", amounts |-> <<>>], [kind |-> "empty", amounts |-> <<>>] }
  \cup { [kind |-> "accounts", amounts |-> a] : a \in {<<50, 50>>, <<90, 10>>, <<100>>} }
\* The answers the buy actions draw.
HolderRpc ==
  { [kind |-> "raise", amounts |-> <<>>], [kind |-> "accounts", amounts |-> <<50, 50>>] }

Holders(kind, count, top) ==
  [kind |-> kind, holder_count |-> count, top_holder_pct |-> top]

\* What the gate's holder query can give: kind "raise" (an exception), "ok"
\* (the two fields), "malformed" (a result without the fields).
\* get_token_holders: it raises, or returns holder_count and top_holder_pct.
get_token_holders(rpc) ==
  IF rpc.kind = "raise" THEN Holders("raise", 0, 0)
  ELSE IF rpc.kind = "empty" THEN Holders("ok", 0, 100000)
  ELSE LET total == IF SeqSum(rpc.amounts) = 0 THEN 1 ELSE SeqSum(rpc.amounts)
       IN  Holders("ok", Len(rpc.amounts),
                   Round2Pct((SeqMax(rpc.amounts) * 100000) \div total))

(***************************************************************************)
(* Safety gate (safety.py)                                                 *)
(***************************************************************************)
BuyRatioGE(token, num, den) ==   \* buys/total >= num/den
  token.buy_count_5m * den >= num * (token.buy_count_5m + token.sell_count_5m)

_compute_trend_scoreMutNoClamp(token) ==
  LET total == token.buy_count_5m + token.sell_count_5m
      pressure == IF total > 0
                  THEN IF BuyRatioGE(token, 7, 10) THEN 20
                       ELSE IF BuyRatioGE(token, 6, 10) THEN 10
                       ELSE IF ~BuyRatioGE(token, 4, 10) THEN -15 ELSE 0
                  ELSE 0
      m5  == IF token.price_change_5m > 5 THEN 10
             ELSE IF token.price_change_5m < -5 THEN -10 ELSE 0
      h1  == IF token.price_change_1h > 10 THEN 10
             ELSE IF token.price_change_1h < -10 THEN -10 ELSE 0
      liq == IF token.liquidity_usd > 200 THEN 10
             ELSE IF token.liquidity_usd > 100 THEN 5 ELSE 0
      vel == IF token.liquidity_usd > 0
             THEN IF token.volume_24h > 5 * token.liquidity_usd THEN 5
                  ELSE IF 2 * token.volume_24h < token.liquidity_usd THEN -5 ELSE 0
             ELSE 0
  IN  50 + pressure + m5 + h1 + liq + vel
_compute_trend_score(token) ==
  LET total == token.buy_count_5m + token.sell_count_5m
      pressure == IF total > 0
                  THEN IF BuyRatioGE(token, 7, 10) THEN 20
                       ELSE IF BuyRatioGE(token, 6, 10) THEN 10
                       ELSE IF ~BuyRatioGE(token, 4, 10) THEN -15 ELSE 0
                  ELSE 0
      m5  == IF token.price_change_5m > 5 THEN 10
             ELSE IF token.price_change_5m < -5 THEN -10 ELSE 0
      h1  == IF token.price_change_1h > 10 THEN 10
             ELSE IF token.price_change_1h < -10 THEN -10 ELSE 0
      liq == IF token.liquidity_usd > 200 THEN 10
             ELSE IF token.liquidity_usd > 100 THEN 5 ELSE 0
      vel == IF token.liquidity_usd > 0
             THEN IF token.volume_24h > 5 * token.liquidity_usd THEN 5
                  ELSE IF 2 * token.volume_24h < token.liquidity_usd THEN -5 ELSE 0
             ELSE 0
  IN  Max2(0, Min2(100, 50 + pressure + m5 + h1 + liq + vel))

When(cond, tag) == IF cond THEN <<tag>> ELSE <<>>

\* Check 3: the requested amount against the position limit.
PositionTooLargeMutNever(amount_sol, rk) == FALSE
PositionTooLarge(amount_sol, rk) == amount_sol > rk.max_position_sol

\* Check 6: an open position of the token exists.
DuplicatePositionMutNever(positions, address) == FALSE
DuplicatePosition(positions, address) == get_positions_for_token(positions, address) # <<>>

\* The holder part of the gate (check 7): reasons it appends.
HolderReasonsMutFailOpen(holders, rk) ==
  IF holders.kind \in {"raise", "malformed"} THEN <<>>
  ELSE When(holders.holder_count < rk.min_holder_count, "holder_count")
       \o When(holders.top_holder_pct > rk.max_top_holder_pct, "top_holder")
HolderReasons(holders, rk) ==
  IF holders.kind \in {"raise", "malformed"} THEN <<"holder_check_failed">>
  ELSE When(holders.holder_count < rk.min_holder_count, "holder_count")
       \o When(holders.top_holder_pct > rk.max_top_holder_pct, "top_holder")

\* The reasons list check_token_safety builds: every check runs, in order.
SafetyReasons(token, rk, positions, trade_log, holders, amount_sol, t) ==
  LET invested   == get_total_sol_invested(positions)
      last_trade == get_last_trade_time(trade_log, token.address)
  IN  When(token.liquidity_usd < rk.min_liquidity_usd, "liquidity")
      \o When(token.volume_24h < rk.min_volume_24h_usd, "volume")
      \o When(PositionTooLarge(amount_sol, rk), "position_size")
      \o When(invested + amount_sol > rk.max_portfolio_sol, "exposure")
      \o When(last_trade # NoTime /\ (t - last_trade) < rk.cooldown_seconds, "cooldown")
      \o When(DuplicatePosition(positions, token.address), "duplicate")
      \o HolderReasons(holders, rk)

SafetyResult(safe, reasons, score) == [safe |-> safe, reasons |-> reasons, score |-> score]

check_token_safetyMutShortCircuit(token, rk, positions, trade_log, holders, amount_sol, t) ==
  LET reasons == SafetyReasons(token, rk, positions, trade_log, holders, amount_sol, t)
  IN  SafetyResult(reasons = <<>>, SubSeq(reasons, 1, Min2(1, Len(reasons))),
                   _compute_trend_score(token))
check_token_safety(token, rk, positions, trade_log, holders, amount_sol, t) ==
  LET reasons == SafetyReasons(token, rk, positions, trade_log, holders, amount_sol, t)
  IN  SafetyResult(reasons = <<>>, reasons, _compute_trend_score(token))

(***************************************************************************)
(* StrategyMemory (memory.py)                                              *)
(***************************************************************************)
MEM_LIMIT == 200

EmptyMemory ==
  [ lessons |-> <<>>, avoid_tokens |-> <<>>, prefer_patterns |-> <<>>,
    session_notes |-> <<>>, trade_reviews |-> <<>> ]

\* _save: the three bounded collections keep their newest MEM_LIMIT entries.
mem_saveMutNoTrim(mem) == mem
mem_saveMutEager(mem) ==
  [ mem EXCEPT !.lessons       = Last(@, MEM_LIMIT - 1),
               !.trade_reviews = Last(@, MEM_LIMIT - 1),
               !.session_notes = Last(@, MEM_LIMIT - 1) ]
mem_save(mem) ==
  [ mem EXCEPT !.lessons       = Last(@, MEM_LIMIT),
               !.trade_reviews = Last(@, MEM_LIMIT),
               !.session_notes = Last(@, MEM_LIMIT) ]

add_lesson(mem, lesson, source, t) ==
  mem_save([mem EXCEPT !.lessons =
              Append(@, [lesson |-> lesson, source |-> source, time |-> t])])

add_avoidMutAlways(mem, address, reason, t) ==
  mem_save([mem EXCEPT !.avoid_tokens =
              Append(@, [address |-> address, reason |-> reason, time |-> t])])
add_avoidMutLastWins(mem, address, reason, t) ==
  IF \E i \in 1..Len(mem.avoid_tokens) : mem.avoid_tokens[i].address = address
  THEN [mem EXCEPT !.avoid_tokens =
          [i \in 1..Len(@) |-> IF @[i].address = address
                               THEN [@[i] EXCEPT !.reason = reason] ELSE @[i]]]
  ELSE mem_save([mem EXCEPT !.avoid_tokens =
                   Append(@, [address |-> address, reason |-> reason, time |-> t])])
add_avoid(mem, address, reason, t) ==
  IF \E i \in 1..Len(mem.avoid_tokens) : mem.avoid_tokens[i].address = address
  THEN mem
  ELSE mem_save([mem EXCEPT !.avoid_tokens =
                   Append(@, [address |-> address, reason |-> reason, time |-> t])])

\* should_avoid: the reason of the first entry for the address, or NoReason.
should_avoid(mem, address) ==
  LET S == { i \in 1..Len(mem.avoid_tokens) : mem.avoid_tokens[i].address = address }
  IN  IF S = {} THEN NoReason
      ELSE mem.avoid_tokens[CHOOSE i \in S : \A j \in S : i <= j].reason

add_patternMutAlways(mem, pattern) ==
  mem_save([mem EXCEPT !.prefer_patterns = Append(@, pattern)])
add_pattern(mem, pattern) ==
  IF \E i \in 1..Len(mem.prefer_patterns) : mem.prefer_patterns[i] = pattern
  THEN mem
  ELSE mem_save([mem EXCEPT !.prefer_patterns = Append(@, pattern)])

add_user_note(mem, note, t) ==
  mem_save([mem EXCEPT !.session_notes = Append(@, [note |-> note, time |-> t])])

\* f"{x:.0f}" of a percentage held in milli-percent: whole percent.
Fmt0(x) == RoundHalfEven(x, 1000) \div 1000

\* _auto_learn: pnl_pct and buy_ratio in milli-percent.
_auto_learnMutStrict(mem, pnl_pct, score, buy_ratio, liq, symbol, addr, reason, t) ==
  IF pnl_pct < -30000
  THEN add_avoid(
         add_lesson(mem, <<"Big loss on", symbol, score, Fmt0(buy_ratio), liq, reason>>,
                    "auto_loss", t),
         addr, <<"Lost", Fmt0(pnl_pct), reason>>, t)
  ELSE IF pnl_pct > 50000
  THEN add_pattern(
         add_lesson(mem, <<"Big win on", symbol, score, Fmt0(buy_ratio), liq>>,
                    "auto_win", t),
         <<score, Fmt0(buy_ratio), liq>>)
  ELSE mem
_auto_learn(mem, pnl_pct, score, buy_ratio, liq, symbol, addr, reason, t) ==
  IF pnl_pct <= -30000
  THEN add_avoid(
         add_lesson(mem, <<"Big loss on", symbol, score, Fmt0(buy_ratio), liq, reason>>,
                    "auto_loss", t),
         addr, <<"Lost", Fmt0(pnl_pct), reason>>, t)
  ELSE IF pnl_pct >= 50000
  THEN add_pattern(
         add_lesson(mem, <<"Big win on", symbol, score, Fmt0(buy_ratio), liq>>,
                    "auto_win", t),
         <<score, Fmt0(buy_ratio), liq>>)
  ELSE mem

add_trade_review(mem, token_address, symbol, side, pnl_sol, pnl_pct, trend_score, buy_ratio, liquidity_usd, hold_time_min, reason, t) ==
  LET review ==
        [ token |-> token_address, symbol |-> symbol, side |-> side,
          pnl_sol |-> Round6Sol(pnl_sol), pnl_pct |-> Round2Pct(pnl_pct),
          trend_score |-> trend_score, buy_ratio |-> RoundHalfEven(buy_ratio, 100),
          liquidity_usd |-> liquidity_usd,
          hold_time_min |-> RoundHalfEven(hold_time_min, 100),
          reason |-> reason, time |-> t ]
      m1 == mem_save([mem EXCEPT !.trade_reviews = Append(@, review)])
  IN  _auto_learn(m1, pnl_pct, trend_score, buy_ratio, liquidity_usd, symbol,
                  token_address, reason, t)

(***************************************************************************)
(* SolanaTraderTool (tool.py): state                                       *)
(***************************************************************************)
VARIABLES
  positions,    \* PositionManager._positions
  trade_log,    \* PositionManager._trade_log
  stats,        \* PositionManager._stats
  memory,       \* StrategyMemory._data
  now,          \* time.time(), a logical clock
  dry_run,      \* config.dry_run (simulation mode)
  autonomous,   \* config.autonomous
  last          \* what the latest tool action did and returned

vars   == <<positions, trade_log, stats, memory, now, dry_run, autonomous, last>>
pmvars == <<positions, trade_log, stats>>
cfgvars == <<dry_run, autonomous>>

PM == [positions |-> positions, trade_log |-> trade_log, stats |-> stats]
SetPM(pm) ==
  /\ positions' = pm.positions
  /\ trade_log' = pm.trade_log
  /\ stats'     = pm.stats

\* op: the tool action (token: the address it was asked about); result: the
\* kind of its return value ("raised" when an exception left the handler);
\* calls: the collaborator calls it made; reasons: the safety gate's reasons,
\* when the gate ran; n: the number of auto-buys or exits it reports.
Outcome(op, token, result, calls, reasons, n) ==
  [op |-> op, result |-> result, calls |-> calls, reasons |-> reasons, n |-> n]

NoToken == TokenInfo("", 0, 0, 0, 0, 0, 0, 0)

\* Answers of get_token_info([addr]): it finds nothing, or returns the
\* snapshot of the requested address.
InfoAnswers(S) ==
  { [kind |-> "none", token |-> NoToken] } \cup { [kind |-> "ok", token |-> i] : i \in S }

Quote(kind, impact, out) == [kind |-> kind, price_impact_pct |-> impact, out_amount |-> out]

\* Answers of get_swap_quote for a buy (out_amount in tokens) and for a sell
\* (out_amount in lamports).
BuyQuotes  == {Quote("raise", 0, 0)} \cup { Quote("ok", i, 1000) : i \in {-6, 5, 6} }
SellQuotes == {Quote("raise", 0, 0)}
              \cup { Quote("ok", 0, o) : o \in {100000400} }

\* execute_swap builds no transaction in simulation mode and cannot fail there.
SwapAnswers(dr) == {"ok"}
\* Signing and submitting (live mode only): done, an error result, an exception.
SendAnswers(dr) == IF dr THEN {"ok"} ELSE {"ok", "error"}

\* Amounts a caller asks to buy: 0.10 and 0.20 SOL.
BuyAmounts == {100000000, 200000000}

PriceImpactMutSigned(impact) == impact > 5
PriceImpactTooHigh(impact) == Abs(impact) > 5

AvoidedMutNever(mem, address) == FALSE
Avoided(mem, address) == should_avoid(mem, address) # NoReason

(***************************************************************************)
(* _execute_buy: the set of ways one call can end, each with the new       *)
(* PositionManager state.                                                  *)
(***************************************************************************)
GTI == "get_token_info"
GTH == "get_token_holders"
GSQ == "get_swap_quote"
EXS == "execute_swap"
SND == "send_signed_transaction"

BuyRes(pm, result, calls, reasons) ==
  [pm |-> pm, result |-> result, calls |-> calls, reasons |-> reasons]

BuyOpen(pm, token, quote, amount_sol, t) ==
  open_position(pm, token.address, token.symbol, token.price_usd, quote.out_amount,
                amount_sol, risk.stop_loss_pct, risk.take_profit_pct, t)

\* After execute_swap was asked for the transaction.
BuyAfterSwapMutOpenFirst(pm, token, quote, amt, t, dr, swap, send) ==
  IF swap = "raise" THEN {BuyRes(pm, "raised", {GTI, GTH, GSQ, EXS}, <<>>)}
  ELSE IF send = "error"
  THEN {BuyRes(BuyOpen(pm, token, quote, amt, t), "error_sign", {GTI, GTH, GSQ, EXS}, <<>>)}
  ELSE IF send = "raise" THEN {BuyRes(pm, "raised", {GTI, GTH, GSQ, EXS, SND}, <<>>)}
  ELSE {BuyRes(BuyOpen(pm, token, quote, amt, t), "ok",
               {GTI, GTH, GSQ, EXS} \cup (IF dr THEN {} ELSE {SND}), <<>>)}
BuyAfterSwap(pm, token, quote, amt, t, dr, swap, send) ==
  IF swap = "raise" THEN {BuyRes(pm, "raised", {GTI, GTH, GSQ, EXS}, <<>>)}
  ELSE IF send = "error" THEN {BuyRes(pm, "error_sign", {GTI, GTH, GSQ, EXS}, <<>>)}
  ELSE IF send = "raise" THEN {BuyRes(pm, "raised", {GTI, GTH, GSQ, EXS, SND}, <<>>)}
  ELSE {BuyRes(BuyOpen(pm, token, quote, amt, t), "ok",
               {GTI, GTH, GSQ, EXS} \cup (IF dr THEN {} ELSE {SND}), <<>>)}

BuyAfterQuote(pm, token, quote, amt, t, dr) ==
  IF quote.kind = "raise" THEN {BuyRes(pm, "raised", {GTI, GTH, GSQ}, <<>>)}
  ELSE IF PriceImpactTooHigh(quote.price_impact_pct)
  THEN {BuyRes(pm, "blocked_impact", {GTI, GTH, GSQ}, <<>>)}
  ELSE UNION { BuyAfterSwap(pm, token, quote, amt, t, dr, swap, send) :
                 swap \in SwapAnswers(dr), send \in SendAnswers(dr) }

BuyAfterSafety(pm, token, safety, amt, t, dr) ==
  IF ~safety.safe THEN {BuyRes(pm, "blocked_safety", {GTI, GTH}, safety.reasons)}
  ELSE UNION { BuyAfterQuote(pm, token, quote, amt, t, dr) : quote \in BuyQuotes }

BuyAfterInfo(pm, info, amt, t, dr) ==
  IF info.kind = "raise" THEN {BuyRes(pm, "raised", {GTI}, <<>>)}
  ELSE IF info.kind = "none" THEN {BuyRes(pm, "error_not_found", {GTI}, <<>>)}
  ELSE UNION { BuyAfterSafety(pm, info.token,
                              check_token_safety(info.token, risk, pm.positions,
                                                 pm.trade_log, get_token_holders(rpc),
                                                 amt, t),
                              amt, t, dr) : rpc \in HolderRpc }

\* infos: the snapshots get_token_info can return for the address.
ExecuteBuyWith(pm, mem, tok, amt, t, dr, infos) ==
  IF Avoided(mem, tok) THEN {BuyRes(pm, "blocked_memory", {}, <<>>)}
  ELSE UNION { BuyAfterInfo(pm, info, amt, t, dr) : info \in InfoAnswers(infos) }

_execute_buy(pm, mem, tok, amt, t, dr) ==
  ExecuteBuyWith(pm, mem, tok, amt, t, dr, BuyInfos(tok))

\* swap with side=buy
SwapBuy ==
  \E tok \in Tokens, amt \in BuyAmounts :
    \E r \in _execute_buy(PM, memory, tok, amt, now, dry_run) :
      /\ Len(r.pm.positions) <= MaxTrades
      /\ SetPM(r.pm)
      /\ last' = Outcome("buy", tok, r.result, r.calls, r.reasons, 0)
      /\ UNCHANGED <<memory, now, cfgvars>>

\* swap with side=buy when the pair data carries no priceUsd:
\* get_token_info reads it as price_usd = 0.
UnpricedInfos(addr) == { Info(addr, 0, Strong) }

SwapBuyUnpriced ==
  \E tok \in Tokens, amt \in BuyAmounts :
    \E r \in ExecuteBuyWith(PM, memory, tok, amt, now, dry_run, UnpricedInfos(tok)) :
      /\ Len(r.pm.positions) <= MaxTrades
      /\ SetPM(r.pm)
      /\ last' = Outcome("buy", tok, r.result, r.calls, r.reasons, 0)
      /\ UNCHANGED <<memory, now, cfgvars>>

(***************************************************************************)
(* _execute_sell                                                           *)
(***************************************************************************)
\* buy_ratio of a review, in milli-percent (50% without data).
ReviewBuyRatio(info) ==
  LET total == info.token.buy_count_5m + info.token.sell_count_5m
  IN  IF info.kind = "ok" /\ total > 0
      THEN (info.token.buy_count_5m * 100000) \div total ELSE 50000
ReviewScore(info) == IF info.kind = "ok" THEN _compute_trend_score(info.token) ELSE 50
ReviewLiq(info)   == IF info.kind = "ok" THEN info.token.liquidity_usd ELSE 0
HoldMin(pos, t)   == ((t - pos.entry_time) * 1000) \div 60

Closes(pm) == pm.stats.wins + pm.stats.losses

SellRes(pm, mem, result, calls) ==
  [pm |-> pm, mem |-> mem, result |-> result, calls |-> calls]

\* The tail of _execute_sell once the swap went through: close the position
\* and learn from the trade.
SellClose(pm, mem, tok, info, sol_out, t, dr) ==
  LET pos           == pm.positions[FirstOpen(pm.positions, tok)]
      current_price == IF info.kind = "ok" THEN info.token.price_usd ELSE 0
      pnl_sol       == sol_out - pos.amount_sol_in
      pnl_pct       == PnlPct(current_price, pos.entry_price_usd)
  IN  SellRes(close_position(pm, tok, current_price, sol_out, "closed", t),
              add_trade_review(mem, tok, pos.symbol, "sell", pnl_sol, pnl_pct,
                               ReviewScore(info), ReviewBuyRatio(info), ReviewLiq(info),
                               HoldMin(pos, t), "manual_sell", t),
              "ok", {GTI, GSQ, EXS} \cup (IF dr THEN {} ELSE {SND}))

SellAfterSwapMutIgnoreSend(pm, mem, tok, info, quote, t, dr, swap, send) ==
  IF swap = "raise" THEN {SellRes(pm, mem, "raised", {GTI, GSQ, EXS})}
  ELSE IF Closes(pm) < MaxCloses
  THEN { [SellClose(pm, mem, tok, info, quote.out_amount, t, dr)
            EXCEPT !.result = IF send # "ok" THEN "error_sign" ELSE "ok"] }
  ELSE {}
SellAfterSwap(pm, mem, tok, info, quote, t, dr, swap, send) ==
  IF swap = "raise" THEN {SellRes(pm, mem, "raised", {GTI, GSQ, EXS})}
  ELSE IF send # "ok" THEN {SellRes(pm, mem, "error_sign", {GTI, GSQ, EXS})}
  ELSE IF Closes(pm) < MaxCloses
  THEN {SellClose(pm, mem, tok, info, quote.out_amount, t, dr)}
  ELSE {}

SellAfterInfo(pm, mem, tok, info, t, dr) ==
  IF info.kind = "raise" THEN {SellRes(pm, mem, "raised", {GTI})}
  ELSE UNION { IF quote.kind = "raise" THEN {SellRes(pm, mem, "raised", {GTI, GSQ})}
               ELSE UNION { SellAfterSwap(pm, mem, tok, info, quote, t, dr, swap, send) :
                              swap \in SwapAnswers(dr), send \in SendAnswers(dr) }
               : quote \in SellQuotes }

_execute_sell(pm, mem, tok, t, dr) ==
  IF get_positions_for_token(pm.positions, tok) = <<>>
  THEN {SellRes(pm, mem, "no_position", {})}
  ELSE UNION { SellAfterInfo(pm, mem, tok, info, t, dr) :
                 info \in InfoAnswers(SellInfos(tok)) }

\* swap with side=sell
SwapSell ==
  \E tok \in Tokens :
    \E r \in _execute_sell(PM, memory, tok, now, dry_run) :
      /\ SetPM(r.pm)
      /\ memory' = r.mem
      /\ last' = Outcome("sell", tok, r.result, r.calls, <<>>, 0)
      /\ UNCHANGED <<now, cfgvars>>

(***************************************************************************)
(* set_limits                                                              *)
(***************************************************************************)
\* The [stop_loss_pct, take_profit_pct] pairs a caller sets.
Limits == { [sl |-> 20, tp |-> 0] }

set_limitsMutAlwaysAssign(ps, i, stop_loss_pct, take_profit_pct) ==
  [ ps EXCEPT
      ![i].stop_loss_price = StopLossPrice(ps[i].entry_price_usd, stop_loss_pct),
      ![i].take_profit_price = TakeProfitPrice(ps[i].entry_price_usd, take_profit_pct) ]
set_limits(ps, i, stop_loss_pct, take_profit_pct) ==
  [ ps EXCEPT
      ![i].stop_loss_price =
         IF stop_loss_pct > 0 THEN StopLossPrice(ps[i].entry_price_usd, stop_loss_pct) ELSE @,
      ![i].take_profit_price =
         IF take_profit_pct > 0 THEN TakeProfitPrice(ps[i].entry_price_usd, take_profit_pct)
         ELSE @ ]

SetLimits ==
  /\ \E tok \in Tokens, lim \in Limits :
       LET i == FirstOpen(positions, tok) IN
       IF i = 0
       THEN /\ last' = Outcome("set_limits", tok, "no_position", {}, <<>>, 0)
            /\ UNCHANGED positions
       ELSE /\ last' = Outcome("set_limits", tok, "ok", {}, <<>>, 0)
            /\ positions' = set_limits(positions, i, lim.sl, lim.tp)
  /\ UNCHANGED <<trade_log, stats, memory, now, cfgvars>>

(***************************************************************************)
(* check_exits                                                             *)
(***************************************************************************)
OpenTokens(ps) == { ps[i].token_address : i \in OpenIdx(ps) }

AllExitInfos == UNION { ExitInfos(a) : a \in Tokens }

\* Answers of get_token_info(addresses): snapshots of some of the addresses.
ExitAnswers(A) ==
  UNION { { f \in [S -> AllExitInfos] : \A a \in S : f[a].address = a } : S \in SUBSET A }

MapInfo(token_map, tok) ==
  IF tok \in DOMAIN token_map THEN [kind |-> "ok", token |-> token_map[tok]]
  ELSE [kind |-> "none", token |-> NoToken]

\* sol_out = amount_sol_in * (1 + pnl_pct / 100), pnl_pct in milli-percent.
ExitSolOut(sol_in, pnl_pct) == sol_in + MulDiv(sol_in, pnl_pct, 100000)

\* The loop body in simulation mode: close, then record.
ExitClose(pm, mem, pos, reason, token_map, t) ==
  LET tok           == pos.token_address
      info          == MapInfo(token_map, tok)
      current_price == IF info.kind = "ok" THEN info.token.price_usd ELSE 0
      pnl_pct       == PnlPct(current_price, pos.entry_price_usd)
      sol_out       == ExitSolOut(pos.amount_sol_in, pnl_pct)
  IN  [ pm  |-> close_position(pm, tok, current_price, sol_out, reason, t),
        mem |-> add_trade_review(mem, tok, pos.symbol, "sell",
                                 sol_out - pos.amount_sol_in, pnl_pct,
                                 ReviewScore(info), ReviewBuyRatio(info), ReviewLiq(info),
                                 HoldMin(pos, t), reason, t),
        n   |-> 1 ]

\* The loop over triggered[k..] in simulation mode, from state s = [pm, mem, n].
RECURSIVE ExitLoopDry(_, _, _, _, _, _)
ExitLoopDry(s, ps0, triggered, k, token_map, t) ==
  IF k > Len(triggered) THEN s
  ELSE LET r == ExitClose(s.pm, s.mem, ps0[triggered[k].idx], triggered[k].reason,
                          token_map, t)
       IN  ExitLoopDry([r EXCEPT !.n = s.n + 1], ps0, triggered, k + 1, token_map, t)

\* The loop in live mode: every triggered position is handed to _execute_sell,
\* and whatever that returns or raises, the loop goes on.
RECURSIVE ExitLoopLive(_, _, _, _, _)
ExitLoopLive(S, ps0, triggered, k, t) ==
  IF k > Len(triggered) THEN S
  ELSE ExitLoopLive(
         UNION { { [pm |-> r.pm, mem |-> r.mem,
                    n |-> s.n + (IF r.result = "ok" THEN 1 ELSE 0)] :
                   r \in _execute_sell(s.pm, s.mem, ps0[triggered[k].idx].token_address,
                                       t, FALSE) } : s \in S },
         ps0, triggered, k + 1, t)

ExitLoop(pm, mem, triggered, token_map, t, dr) ==
  LET s0 == [pm |-> pm, mem |-> mem, n |-> 0]
  IN  IF dr THEN {ExitLoopDry(s0, pm.positions, triggered, 1, token_map, t)}
      ELSE ExitLoopLive({s0}, pm.positions, triggered, 1, t)

CheckExits ==
  /\ IF get_open_positions(positions) = <<>>
     THEN /\ last' = Outcome("check_exits", "", "no_open", {}, <<>>, 0)
          /\ UNCHANGED <<pmvars, memory>>
     ELSE \/ /\ last' = Outcome("check_exits", "", "raised", {GTI}, <<>>, 0)
             /\ UNCHANGED <<pmvars, memory>>
          \/ \E answer \in ExitAnswers(OpenTokens(positions)) :
               LET prices    == [a \in DOMAIN answer |-> answer[a].price_usd]
                   triggered == check_stop_loss_take_profit(positions, prices)
               IN  IF triggered = <<>>
                   THEN /\ last' = Outcome("check_exits", "", "within_limits", {GTI},
                                           <<>>, 0)
                        /\ UNCHANGED <<pmvars, memory>>
                   ELSE \E r \in ExitLoop(PM, memory, triggered, answer, now, dry_run) :
                          /\ Closes(r.pm) <= MaxCloses
                          /\ SetPM(r.pm)
                          /\ memory' = r.mem
                          /\ last' = Outcome("check_exits", "", "exits", {GTI},
                                             <<>>, Len(triggered))
  /\ UNCHANGED <<now, cfgvars>>

(***************************************************************************)
(* scan_trending                                                           *)
(***************************************************************************)
TOP_N == 5
MAX_AUTO_BUYS == 3

\* get_stats: win_rate_pct = round(wins / total * 100, 1), in milli-percent
\* (0 without trades).
WinRatePct(st) ==
  LET total == st.wins + st.losses
      n     == st.wins * 1000
      q     == IF total = 0 THEN 0 ELSE n \div total
      r     == IF total = 0 THEN 0 ELSE n % total
  IN  IF total = 0 THEN 0
      ELSE 100 * (IF 2 * r < total THEN q
                  ELSE IF 2 * r > total THEN q + 1
                  ELSE IF q % 2 = 0 THEN q ELSE q + 1)

\* suggest_trade_size: amounts in lamports, win rate in milli-percent.
suggest_trade_sizeMutStrictTiers(st, base_sol, sol_balance) ==
  LET total == st.wins + st.losses IN
  IF total < 5 THEN base_sol
  ELSE LET win_rate == WinRatePct(st)
           m10 == IF win_rate > 70000 THEN 15
                  ELSE IF win_rate > 55000 THEN 12
                  ELSE IF win_rate <= 40000 THEN 5 ELSE 10
           suggested == Min2(Min2((base_sol * m10) \div 10, base_sol * 2),
                             sol_balance \div 10)
       IN  RoundHalfEven(Max2(suggested, LAMPORTS_PER_SOL \div 100),
                         LAMPORTS_PER_SOL \div 10000)
suggest_trade_size(st, base_sol, sol_balance) ==
  LET total == st.wins + st.losses IN
  IF total < 5 THEN base_sol
  ELSE LET win_rate == WinRatePct(st)
           m10 == IF win_rate >= 70000 THEN 15
                  ELSE IF win_rate >= 55000 THEN 12
                  ELSE IF win_rate < 40000 THEN 5 ELSE 10
           suggested == Min2(Min2((base_sol * m10) \div 10, base_sol * 2),
                             sol_balance \div 10)
       IN  RoundHalfEven(Max2(suggested, LAMPORTS_PER_SOL \div 100),
                         LAMPORTS_PER_SOL \div 10000)

\* Answers of scan_trending_tokens.
ScanAnswers ==
  { <<>>, <<Info("T1", 100, Strong)>>,
    <<Info("T2", 100, Weak), Info("T1", 100, Strong)>>,
    <<Info("T1", 100, Strong), Info("T2", 100, Strong)>> }

Balances == {2000000000}

\* buy_pct of a snapshot, in milli-percent.
BuyPct(t) ==
  LET total == t.buy_count_5m + t.sell_count_5m
  IN  IF total > 0 THEN (t.buy_count_5m * 100000) \div total ELSE 0

\* The scoring loop: avoided tokens are dropped, the rest is scored.
RECURSIVE Scored(_, _)
Scored(mem, tokens) ==
  IF tokens = <<>> THEN <<>>
  ELSE LET t == Head(tokens)
       IN  IF Avoided(mem, t.address) THEN Scored(mem, Tail(tokens))
           ELSE <<[token |-> t, score |-> _compute_trend_score(t), buy_pct |-> BuyPct(t)]>>
                \o Scored(mem, Tail(tokens))

\* list.sort(key=score, reverse=True): stable, descending.
RECURSIVE InsertDesc(_, _)
InsertDesc(x, sorted) ==
  IF sorted = <<>> THEN <<x>>
  ELSE IF Head(sorted).score >= x.score THEN <<Head(sorted)>> \o InsertDesc(x, Tail(sorted))
  ELSE <<x>> \o sorted

RECURSIVE SortDesc(_, _)
SortDesc(todo, sorted) ==
  IF todo = <<>> THEN sorted ELSE SortDesc(Tail(todo), InsertDesc(Head(todo), sorted))

Flags(t) ==
  When(t.liquidity_usd < risk.min_liquidity_usd, "LOW_LIQ")
  \o When(t.volume_24h < risk.min_volume_24h_usd, "LOW_VOL")

IsCandidate(item) ==
  /\ item.score >= config.min_trend_score
  /\ Flags(item.token) = <<>>
  /\ item.buy_pct >= 60000

\* "BLOCKED" not in buy_result and "Error" not in buy_result: the text of a
\* successful buy names the token's symbol.
HasMarker(result, symbol) ==
  \/ result \in {"blocked_memory", "blocked_safety", "blocked_impact",
                 "error_not_found", "error_sign"}
  \/ symbol = "ErrorCoin"

\* The loop body for one scored item, from state s = [pm, mem, bought, raised].
ScanItem(s, item, suggested, t, dr, auto) ==
  IF s.raised \/ ~(IsCandidate(item) /\ auto /\ s.bought < MAX_AUTO_BUYS) THEN {s}
  ELSE { IF r.result = "raised" THEN [s EXCEPT !.pm = r.pm, !.raised = TRUE]
         ELSE IF HasMarker(r.result, item.token.symbol) THEN [s EXCEPT !.pm = r.pm]
         ELSE [pm     |-> r.pm,
               mem    |-> add_trade_review(s.mem, item.token.address, item.token.symbol,
                                           "buy", 0, 0, item.score, item.buy_pct,
                                           item.token.liquidity_usd, 0, "auto_buy", t),
               bought |-> s.bought + 1,
               raised |-> FALSE]
         : r \in _execute_buy(s.pm, s.mem, item.token.address, suggested, t, dr) }

RECURSIVE ScanLoop(_, _, _, _, _, _, _)
ScanLoop(S, top, k, suggested, t, dr, auto) ==
  IF k > Len(top) THEN S
  ELSE ScanLoop(UNION { ScanItem(s, top[k], suggested, t, dr, auto) : s \in S },
                top, k + 1, suggested, t, dr, auto)

SCAN == "scan_trending_tokens"
BAL  == "get_sol_balance"

ScanTrending ==
  /\ \/ /\ last' = Outcome("scan", "", "raised", {SCAN}, <<>>, 0)
        /\ UNCHANGED <<pmvars, memory>>
     \/ \E tokens \in ScanAnswers :
          IF tokens = <<>>
          THEN /\ last' = Outcome("scan", "", "no_tokens", {SCAN}, <<>>, 0)
               /\ UNCHANGED <<pmvars, memory>>
          ELSE \/ /\ last' = Outcome("scan", "", "raised", {SCAN, BAL}, <<>>, 0)
                  /\ UNCHANGED <<pmvars, memory>>
               \/ \E bal \in Balances :
                    LET scored == SortDesc(Scored(memory, tokens), <<>>)
                        top    == SubSeq(scored, 1, Min2(TOP_N, Len(scored)))
                        size   == suggest_trade_size(stats, risk.max_position_sol, bal)
                    IN  \E r \in ScanLoop({[pm |-> PM, mem |-> memory, bought |-> 0,
                                            raised |-> FALSE]},
                                          top, 1, size, now, dry_run, autonomous) :
                          /\ Len(r.pm.positions) <= MaxTrades
                          /\ SetPM(r.pm)
                          /\ memory' = r.mem
                          /\ last' = Outcome("scan", "", IF r.raised THEN "raised" ELSE "ok",
                                             {SCAN, BAL}, <<>>, r.bought)
  /\ UNCHANGED <<now, cfgvars>>

(***************************************************************************)
(* Time, and the specification                                             *)
(***************************************************************************)
Tick ==
  /\ now < MaxTime
  /\ now' = now + 1
  /\ UNCHANGED <<pmvars, memory, cfgvars, last>>

Init ==
  /\ positions = <<>>
  /\ trade_log = <<>>
  /\ stats = [total_pnl_sol |-> 0, wins |-> 0, losses |-> 0]
  /\ memory = EmptyMemory
  /\ now = 1
  /\ dry_run \in BOOLEAN
  /\ autonomous \in BOOLEAN
  /\ last = Outcome("init", "", "ok", {}, <<>>, 0)

Next ==
  \/ SwapBuy
  \/ SwapSell
  \/ SetLimits
  \/ CheckExits
  \/ ScanTrending
  \/ Tick

Spec == Init /\ [][Next]_vars

\* Answers of get_token_info(addresses) while the pairs still carry no
\* priceUsd: snapshots of some of the addresses, each with price_usd = 0.0.
ExitAnswersUnpriced(A) ==
  UNION { { f \in [S -> UNION { UnpricedInfos(a) : a \in Tokens }] :
              \A a \in S : f[a].address = a } : S \in SUBSET A }

\* check_exits on the unpriced market.
CheckExitsUnpriced ==
  /\ IF get_open_positions(positions) = <<>>
     THEN /\ last' = Outcome("check_exits", "", "no_open", {}, <<>>, 0)
          /\ UNCHANGED <<pmvars, memory>>
     ELSE \/ /\ last' = Outcome("check_exits", "", "raised", {GTI}, <<>>, 0)
             /\ UNCHANGED <<pmvars, memory>>
          \/ \E answer \in ExitAnswersUnpriced(OpenTokens(positions)) :
               LET prices    == [a \in DOMAIN answer |-> answer[a].price_usd]
                   triggered == check_stop_loss_take_profit(positions, prices)
               IN  IF triggered = <<>>
                   THEN /\ last' = Outcome("check_exits", "", "within_limits", {GTI},
                                           <<>>, 0)
                        /\ UNCHANGED <<pmvars, memory>>
                   ELSE \E r \in ExitLoop(PM, memory, triggered, answer, now, dry_run) :
                          /\ Closes(r.pm) <= MaxCloses
                          /\ SetPM(r.pm)
                          /\ memory' = r.mem
                          /\ last' = Outcome("check_exits", "", "exits", {GTI},
                                             <<>>, Len(triggered))
  /\ UNCHANGED <<now, cfgvars>>

\* The tool in simulation mode on a market whose pairs carry no priceUsd at
\* the time of a buy.
InitUnpriced ==
  /\ positions = <<>>
  /\ trade_log = <<>>
  /\ stats = [total_pnl_sol |-> 0, wins |-> 0, losses |-> 0]
  /\ memory = EmptyMemory
  /\ now = 1
  /\ dry_run = TRUE
  /\ autonomous = FALSE
  /\ last = Outcome("init", "", "ok", {}, <<>>, 0)

NextUnpriced ==
  \/ SwapBuyUnpriced
  \/ SwapSell
  \/ SetLimits
  \/ CheckExits
  \/ CheckExitsUnpriced
  \/ Tick

SpecUnpriced == InitUnpriced /\ [][NextUnpriced]_vars

(***************************************************************************)
(* StrategyMemory on its own: the read side, the store, and a              *)
(* specification of direct calls on one instance                           *)
(***************************************************************************)
\* lst[-limit:] of Python: the last limit entries for a positive limit, the
\* list without its first -limit entries otherwise (the whole list for 0).
SliceLast(lst, limit) ==
  IF limit > 0 THEN Last(lst, limit) ELSE SubSeq(lst, 1 - limit, Len(lst))

get_lessonsMutOldest(mem, limit) ==
  LET l == SubSeq(mem.lessons, 1, limit) IN [i \in 1..Len(l) |-> l[i].lesson]
get_lessons(mem, limit) ==
  LET l == SliceLast(mem.lessons, limit) IN [i \in 1..Len(l) |-> l[i].lesson]

get_patterns(mem) == mem.prefer_patterns

get_user_notes(mem, limit) ==
  LET l == SliceLast(mem.session_notes, limit) IN [i \in 1..Len(l) |-> l[i].note]

get_trade_history(log, limit) == SliceLast(log, limit)

\* json.dumps of a dict: its members as <<key, value>> pairs in insertion
\* order; json.loads: the dict of those pairs.
LessonKeys == <<"lesson", "source", "time">>
AvoidKeys  == <<"address", "reason", "time">>
NoteKeys   == <<"note", "time">>
ReviewKeys == <<"token", "symbol", "side", "pnl_sol", "pnl_pct", "trend_score", "buy_ratio", "liquidity_usd", "hold_time_min", "reason", "time">>

DumpObj(obj, keys) == [i \in 1..Len(keys) |-> <<keys[i], obj[keys[i]]>>]
LoadObj(doc) ==
  [k \in { doc[i][1] : i \in 1..Len(doc) } |->
     doc[CHOOSE i \in 1..Len(doc) :
           doc[i][1] = k /\ \A j \in 1..Len(doc) : doc[j][1] = k => j <= i][2]]
DumpList(lst, keys) == [i \in 1..Len(lst) |-> DumpObj(lst[i], keys)]
LoadList(doc) == [i \in 1..Len(doc) |-> LoadObj(doc[i])]

json_dumps(mem) ==
  << <<"lessons", DumpList(mem.lessons, LessonKeys)>>,
     <<"avoid_tokens", DumpList(mem.avoid_tokens, AvoidKeys)>>,
     <<"prefer_patterns", mem.prefer_patterns>>,
     <<"session_notes", DumpList(mem.session_notes, NoteKeys)>>,
     <<"trade_reviews", DumpList(mem.trade_reviews, ReviewKeys)>> >>

json_loads(text) ==
  LET top == LoadObj(text)
  IN  [ lessons         |-> LoadList(top["lessons"]),
        avoid_tokens    |-> LoadList(top["avoid_tokens"]),
        prefer_patterns |-> top["prefer_patterns"],
        session_notes   |-> LoadList(top["session_notes"]),
        trade_reviews   |-> LoadList(top["trade_reviews"]) ]

\* The store file: absent, or the text of the last _save.
NoStore == <<>>
\* A store file whose text is not JSON: json.loads raises on it.
Garbled == <<"{">>
\* _load of a fresh instance: the defaults stay when the file is absent or
\* json.loads raises.
mem_load(store) ==
  IF store = NoStore \/ store = Garbled THEN EmptyMemory ELSE json_loads(store)

\* A memory that earlier calls filled with n lessons, notes and reviews
\* (entry i is the i-th oldest), none of which taught anything.
OldLesson(i) == [lesson |-> <<"old", i>>, source |-> "user", time |-> 0]
OldNote(i)   == [note |-> <<"old", i>>, time |-> 0]
OldReview(i) ==
  [ token |-> "T1", symbol |-> Symbol("T1"), side |-> "sell", pnl_sol |-> i,
    pnl_pct |-> 0, trend_score |-> 0, buy_ratio |-> 0, liquidity_usd |-> 0,
    hold_time_min |-> 0, reason |-> "manual_sell", time |-> 0 ]
Filled(n) ==
  [ lessons         |-> [i \in 1..n |-> OldLesson(i)],
    avoid_tokens    |-> <<>>,
    prefer_patterns |-> <<>>,
    session_notes   |-> [i \in 1..n |-> OldNote(i)],
    trade_reviews   |-> [i \in 1..n |-> OldReview(i)] ]
Fills == {0, MEM_LIMIT - 1, MEM_LIMIT}

\* Number of calls a behaviour makes on the instance.
MaxMemOps == 2

\* Arguments of the calls.
LessonTexts  == { <<"lesson", 1>>, <<"lesson", 2>> }
NoteTexts    == { <<"note", 1>>, <<"note", 2>> }
AvoidReasons == { <<"Lost", -40, "manual_sell">>, <<"Lost", -90, "stopped_out">> }
Patterns     == { <<70, 80, 250>>, <<90, 60, 150>> }
ReviewPnls   == {-35000, -30000, -29999, 10000, 49999, 50000, 60000}

\* The call made last: its name and arguments.
MemCall(op, address, text, pnl_pct) ==
  [op |-> op, address |-> address, text |-> text, pnl_pct |-> pnl_pct]

AddLesson ==
  \E text \in LessonTexts :
    /\ now <= MaxMemOps
    /\ now' = now + 1
    /\ memory' = add_lesson(memory, text, "user", now)
    /\ last' = MemCall("add_lesson", "", text, 0)
    /\ UNCHANGED <<pmvars, cfgvars>>

AddAvoid ==
  \E address \in Tokens, reason \in AvoidReasons :
    /\ now <= MaxMemOps
    /\ now' = now + 1
    /\ memory' = add_avoid(memory, address, reason, now)
    /\ last' = MemCall("add_avoid", address, reason, 0)
    /\ UNCHANGED <<pmvars, cfgvars>>

AddPattern ==
  \E pattern \in Patterns :
    /\ now <= MaxMemOps
    /\ now' = now + 1
    /\ memory' = add_pattern(memory, pattern)
    /\ last' = MemCall("add_pattern", "", pattern, 0)
    /\ UNCHANGED <<pmvars, cfgvars>>

AddUserNote ==
  \E note \in NoteTexts :
    /\ now <= MaxMemOps
    /\ now' = now + 1
    /\ memory' = add_user_note(memory, note, now)
    /\ last' = MemCall("add_user_note", "", note, 0)
    /\ UNCHANGED <<pmvars, cfgvars>>

\* A sell of a 0.1 SOL position reviewed with pnl_pct (score 70, buy ratio
\* 80%, liquidity 250k).
AddTradeReview ==
  \E address \in Tokens, pnl_pct \in ReviewPnls :
    /\ now <= MaxMemOps
    /\ now' = now + 1
    /\ memory' = add_trade_review(memory, address, Symbol(address), "sell",
                                  MulDiv(100000000, pnl_pct, 100000), pnl_pct, 70, 80000,
                                  250, 0, "manual_sell", now)
    /\ last' = MemCall("add_trade_review", address, <<>>, pnl_pct)
    /\ UNCHANGED <<pmvars, cfgvars>>

InitMem ==
  /\ positions = <<>>
  /\ trade_log = <<>>
  /\ stats = [total_pnl_sol |-> 0, wins |-> 0, losses |-> 0]
  /\ memory \in { Filled(n) : n \in Fills }
  /\ now = 1
  /\ dry_run = TRUE
  /\ autonomous = FALSE
  /\ last = MemCall("init", "", <<>>, 0)

NextMem ==
  \/ AddLesson
  \/ AddAvoid
  \/ AddPattern
  \/ AddUserNote
  \/ AddTradeReview

SpecMem == InitMem /\ [][NextMem]_vars

(***************************************************************************)
(* suggest_trade_size on its own: a PositionManager with a trading record  *)
(* is asked for the next trade size                                        *)
(***************************************************************************)
\* Records [wins, losses] a PositionManager may have reached: fewer than 5
\* trades; win rates of exactly 70, 55 and 40%; rates between the tiers; and
\* 142 wins in 203 trades (69.95%, reported as 70.0).
Records ==
  { <<0, 0>>, <<4, 0>>, <<0, 4>>, <<3, 1>>, <<7, 3>>, <<11, 9>>, <<4, 6>>, <<3, 7>>,
    <<6, 4>>, <<5, 5>>, <<10, 0>>, <<0, 5>>, <<142, 61>> }
\* base_sol: 0.1, 0.0123 and 0.001 SOL; sol_balance: 0.05, 1.5 and 2 SOL.
BaseSizes == {100000000, 12300000, 1000000}
SizeBalances == {50000000, 1500000000, 2000000000}

SizeCall(base_sol, sol_balance, result) ==
  [op |-> "suggest_trade_size", base_sol |-> base_sol, sol_balance |-> sol_balance, result |-> result]

SuggestTradeSize ==
  \E base_sol \in BaseSizes, sol_balance \in SizeBalances :
    /\ last' = SizeCall(base_sol, sol_balance,
                        suggest_trade_size(stats, base_sol, sol_balance))
    /\ UNCHANGED <<pmvars, memory, now, cfgvars>>

InitSize ==
  /\ positions = <<>>
  /\ trade_log = <<>>
  /\ \E rec \in Records :
       stats = [total_pnl_sol |-> 0, wins |-> rec[1], losses |-> rec[2]]
  /\ memory = EmptyMemory
  /\ now = 1
  /\ dry_run = TRUE
  /\ autonomous = FALSE
  /\ last = SizeCall(0, 0, 0)

NextSize == SuggestTradeSize

SpecSize == InitSize /\ [][NextSize]_vars

(***************************************************************************)
(* _compute_trend_score on its own: a snapshot is scored                   *)
(***************************************************************************)
\* Snapshots around every threshold of the score: 5m buy/sell counts, 5m and
\* 1h price changes, liquidity and 24h volume (both in $k).
ScoreTxns == { <<0, 0>>, <<8, 2>>, <<7, 3>>, <<69, 31>>, <<6, 4>>, <<5, 5>>, <<4, 6>>, <<39, 61>> }
ScorePc5m == {-6, -5, 0, 5, 6}
ScorePc1h == {-11, -10, 10, 15}
ScoreLiqs == {0, 100, 101, 200, 201, 250}
ScoreVols == {0, 50, 1000, 1005, 1500}
ScoreTokens ==
  { TokenInfo("T1", 100, vol, liq, pc5m, pc1h, tx[1], tx[2]) :
      vol \in ScoreVols, liq \in ScoreLiqs, pc5m \in ScorePc5m, pc1h \in ScorePc1h,
      tx \in ScoreTxns }

NoScore == -1
ScoreCall(token, score) == [op |-> "score", token |-> token, score |-> score]

ComputeTrendScore ==
  /\ last.score = NoScore
  /\ last' = [last EXCEPT !.score = _compute_trend_score(last.token)]
  /\ UNCHANGED <<pmvars, memory, now, cfgvars>>

InitScore ==
  /\ positions = <<>>
  /\ trade_log = <<>>
  /\ stats = [total_pnl_sol |-> 0, wins |-> 0, losses |-> 0]
  /\ memory = EmptyMemory
  /\ now = 1
  /\ dry_run = TRUE
  /\ autonomous = FALSE
  /\ \E token \in ScoreTokens : last = ScoreCall(token, NoScore)

NextScore == ComputeTrendScore

SpecScore == InitScore /\ [][NextScore]_vars

(***************************************************************************)
(* scan_trending on a market with six trending tokens, run by a tool whose *)
(* PositionManager has five closed trades on record                        *)
(***************************************************************************)
\* Five earlier round trips on another token, one won and four lost; with a
\* 20% win rate suggest_trade_size halves the base size to 0.05 SOL.
RECURSIVE Traded(_, _)
Traded(pm, k) ==
  IF k = 0 THEN pm
  ELSE LET opened == open_position(Traded(pm, k - 1), "T0", Symbol("T0"), 100, 1000,
                                   100000000, risk.stop_loss_pct, risk.take_profit_pct, 0)
       IN  IF k = 1
           THEN close_position(opened, "T0", 110, 110000000, "closed", 0)
           ELSE close_position(opened, "T0", 95, 95000000, "closed", 0)
HistoryLen == 5
History ==
  Traded([positions |-> <<>>, trade_log |-> <<>>,
          stats |-> [total_pnl_sol |-> 0, wins |-> 0, losses |-> 0]], HistoryLen)

\* Answers of scan_trending_tokens: six strong tokens (the second one's
\* symbol contains "Error"), or three of which the first is weak.
ScanWideAnswers ==
  { <<Info("T1", 100, Strong), Info("T2", 100, Strong), Info("T3", 100, Strong),
      Info("T4", 100, Strong), Info("T5", 100, Strong), Info("T6", 100, Strong)>>,
    <<Info("T3", 100, Weak), Info("T2", 100, Strong), Info("T1", 100, Strong)>> }

ScanTrendingWide ==
  /\ \/ /\ last' = Outcome("scan", "", "raised", {SCAN}, <<>>, 0)
        /\ UNCHANGED <<pmvars, memory>>
     \/ \E tokens \in ScanWideAnswers :
          \/ /\ last' = Outcome("scan", "", "raised", {SCAN, BAL}, <<>>, 0)
             /\ UNCHANGED <<pmvars, memory>>
          \/ \E bal \in Balances :
               LET scored == SortDesc(Scored(memory, tokens), <<>>)
                   top    == SubSeq(scored, 1, Min2(TOP_N, Len(scored)))
                   size   == suggest_trade_size(stats, risk.max_position_sol, bal)
               IN  \E r \in ScanLoop({[pm |-> PM, mem |-> memory, bought |-> 0,
                                       raised |-> FALSE]},
                                     top, 1, size, now, dry_run, autonomous) :
                     /\ SetPM(r.pm)
                     /\ memory' = r.mem
                     /\ last' = Outcome("scan", "", IF r.raised THEN "raised" ELSE "ok",
                                        {SCAN, BAL}, <<>>, r.bought)
  /\ UNCHANGED <<now, cfgvars>>

InitScan ==
  /\ positions = History.positions
  /\ trade_log = History.trade_log
  /\ stats = History.stats
  /\ memory = EmptyMemory
  /\ now = 1
  /\ dry_run = TRUE
  /\ autonomous \in BOOLEAN
  /\ last = Outcome("init", "", "ok", {}, <<>>, 0)

NextScan ==
  \/ ScanTrendingWide
  \/ Tick

SpecScan == InitScan /\ [][NextScan]_vars

(***************************************************************************)
(* execute with the arguments as the caller supplies them: swap,           *)
(* set_limits and learn validate their parameters first                    *)
(***************************************************************************)
\* token_address: missing ("") or given; amount_sol: -0.1, 0 and 0.1 SOL;
\* side: the two the tool knows and one it does not; note: missing (the
\* empty text, <<>>) or given.
ArgTokens  == {"", "T1"}
ArgAmounts == {0 - 100000000, 0, 100000000}
ArgSides   == {"buy", "sell", "hold"}
ArgNotes   == {<<>>, <<"note", 1>>}
MaxNotes   == 2

ArgRes(pm, mem, result, calls, reasons) ==
  [pm |-> pm, mem |-> mem, result |-> result, calls |-> calls, reasons |-> reasons]

_swap(pm, mem, token_address, amount_sol, side, t, dr) ==
  IF token_address = "" THEN {ArgRes(pm, mem, "error_token_required", {}, <<>>)}
  ELSE IF amount_sol <= 0 THEN {ArgRes(pm, mem, "error_amount", {}, <<>>)}
  ELSE IF side \notin {"buy", "sell"} THEN {ArgRes(pm, mem, "error_side", {}, <<>>)}
  ELSE IF side = "buy"
  THEN { ArgRes(r.pm, mem, r.result, r.calls, r.reasons) :
           r \in _execute_buy(pm, mem, token_address, amount_sol, t, dr) }
  ELSE { ArgRes(r.pm, r.mem, r.result, r.calls, <<>>) :
           r \in _execute_sell(pm, mem, token_address, t, dr) }

_set_limits(pm, mem, token_address, stop_loss_pct, take_profit_pct) ==
  IF token_address = "" THEN ArgRes(pm, mem, "error_token_required", {}, <<>>)
  ELSE IF get_positions_for_token(pm.positions, token_address) = <<>>
  THEN ArgRes(pm, mem, "no_position", {}, <<>>)
  ELSE ArgRes([pm EXCEPT !.positions = set_limits(@, FirstOpen(@, token_address),
                                                  stop_loss_pct, take_profit_pct)],
              mem, "ok", {}, <<>>)

_learnMutNoCheck(pm, mem, note, t) ==
  ArgRes(pm, add_user_note(mem, note, t), "ok", {}, <<>>)
_learn(pm, mem, note, t) ==
  IF note = <<>> THEN ArgRes(pm, mem, "error_note_required", {}, <<>>)
  ELSE ArgRes(pm, add_user_note(mem, note, t), "ok", {}, <<>>)

ExecuteSwap ==
  \E tok \in ArgTokens, amt \in ArgAmounts, side \in ArgSides :
    \E r \in _swap(PM, memory, tok, amt, side, now, dry_run) :
      /\ Len(r.pm.positions) <= MaxTrades
      /\ SetPM(r.pm)
      /\ memory' = r.mem
      /\ last' = Outcome("swap", tok, r.result, r.calls, r.reasons, 0)
      /\ UNCHANGED <<now, cfgvars>>

ExecuteSetLimits ==
  \E tok \in ArgTokens, lim \in Limits :
    LET r == _set_limits(PM, memory, tok, lim.sl, lim.tp) IN
      /\ SetPM(r.pm)
      /\ memory' = r.mem
      /\ last' = Outcome("set_limits", tok, r.result, r.calls, r.reasons, 0)
      /\ UNCHANGED <<now, cfgvars>>

ExecuteLearn ==
  \E note \in ArgNotes :
    LET r == _learn(PM, memory, note, now) IN
      /\ Len(r.mem.session_notes) <= MaxNotes
      /\ SetPM(r.pm)
      /\ memory' = r.mem
      /\ last' = Outcome("learn", "", r.result, r.calls, r.reasons, 0)
      /\ UNCHANGED <<now, cfgvars>>

InitArgs ==
  /\ positions = <<>>
  /\ trade_log = <<>>
  /\ stats = [total_pnl_sol |-> 0, wins |-> 0, losses |-> 0]
  /\ memory = EmptyMemory
  /\ now = 1
  /\ dry_run \in BOOLEAN
  /\ autonomous = FALSE
  /\ last = Outcome("init", "", "ok", {}, <<>>, 0)

NextArgs ==
  \/ ExecuteSwap
  \/ ExecuteSetLimits
  \/ ExecuteLearn
  \/ Tick

SpecArgs == InitArgs /\ [][NextArgs]_vars

(***************************************************************************)
(* Start-up: the first tool action loads positions.json and strategy.json  *)
(***************************************************************************)
PositionKeys ==
  <<"token_address", "symbol", "entry_price_usd", "amount_tokens", "amount_sol_in",
    "entry_time", "stop_loss_price", "take_profit_price", "status">>
\* The dataclass fields without a default.
RequiredKeys == { PositionKeys[i] : i \in 1..(Len(PositionKeys) - 1) }

EmptyPM ==
  [positions |-> <<>>, trade_log |-> <<>>,
   stats |-> [total_pnl_sol |-> 0, wins |-> 0, losses |-> 0]]

\* json.dumps(data) of PositionManager._save.
pm_dumps(pm) ==
  << <<"positions", DumpList(pm.positions, PositionKeys)>>,
     <<"trade_log", pm.trade_log>>,
     <<"stats", pm.stats>> >>

\* Position(**p): raises unless p has every required field and no other key.
PositionOk(p) ==
  LET keys == { p[i][1] : i \in 1..Len(p) }
  IN  /\ RequiredKeys \subseteq keys
      /\ keys \subseteq { PositionKeys[i] : i \in 1..Len(PositionKeys) }
PositionFrom(p) ==
  LET d == LoadObj(p)
  IN  Position(d["token_address"], d["symbol"], d["entry_price_usd"], d["amount_tokens"],
               d["amount_sol_in"], d["entry_time"], d["stop_loss_price"],
               d["take_profit_price"],
               IF "status" \in DOMAIN d THEN d["status"] ELSE "open")

\* data.get(key, default)
DictGet(d, key, default) == IF key \in DOMAIN d THEN d[key] ELSE default

\* PositionManager._load on an instance that holds pm: the entries are
\* appended one by one; an exception ends the load where it is raised.
pm_load(pm, store) ==
  IF store = NoStore \/ store = Garbled THEN pm
  ELSE LET data    == LoadObj(store)
           entries == DictGet(data, "positions", <<>>)
           bad     == { i \in 1..Len(entries) : ~PositionOk(entries[i]) }
           n       == IF bad = {} THEN Len(entries)
                      ELSE (CHOOSE i \in bad : \A j \in bad : i <= j) - 1
           loaded  == pm.positions \o [i \in 1..n |-> PositionFrom(entries[i])]
       IN  IF bad # {} THEN [pm EXCEPT !.positions = loaded]
           ELSE [ positions |-> loaded,
                  trade_log |-> DictGet(data, "trade_log", <<>>),
                  stats     |-> DictGet(data, "stats", pm.stats) ]

\* What an earlier session saved: two open positions and their buys.
SavedPM ==
  open_position(open_position(EmptyPM, "T1", Symbol("T1"), 100, 1000, 100000000,
                              risk.stop_loss_pct, risk.take_profit_pct, 1),
                "T2", Symbol("T2"), 100, 1000, 100000000,
                risk.stop_loss_pct, risk.take_profit_pct, 1)

\* The saved file with entry k of "positions" damaged: its first member is
\* gone.
Damaged(store, k) ==
  LET entries == store[1][2]
  IN  [store EXCEPT ![1] = <<"positions", [entries EXCEPT ![k] = Tail(@)]>>]

PositionStores ==
  { NoStore, Garbled, pm_dumps(SavedPM),
    Damaged(pm_dumps(SavedPM), 1), Damaged(pm_dumps(SavedPM), 2) }
MemoryStores == { NoStore, Garbled, json_dumps(Filled(1)) }

CorruptPositions(store) ==
  \/ store = Garbled
  \/ /\ store # NoStore
     /\ \E i \in 1..Len(store[1][2]) : ~PositionOk(store[1][2][i])
CorruptMemory(store) == store = Garbled

LoadResult(pstore, mstore) ==
  IF CorruptPositions(pstore)
  THEN IF CorruptMemory(mstore) THEN "corrupt_both" ELSE "corrupt_positions"
  ELSE IF CorruptMemory(mstore) THEN "corrupt_memory" ELSE "loaded"

\* The two _load calls of the first tool action after construction.
LoadStores ==
  /\ last.op = "init"
  /\ \E pstore \in PositionStores, mstore \in MemoryStores :
       /\ SetPM(pm_load(PM, pstore))
       /\ memory' = mem_load(mstore)
       /\ last' = Outcome("load", "", LoadResult(pstore, mstore), {}, <<>>, 0)
  /\ UNCHANGED <<now, cfgvars>>

\* Later calls find _loaded set.
LoadedBuy ==
  /\ last.op # "init"
  /\ SwapBuy

LoadedSell ==
  /\ last.op # "init"
  /\ SwapSell

LoadedCheckExits ==
  /\ last.op # "init"
  /\ CheckExits

NextLoad ==
  \/ LoadStores
  \/ LoadedBuy
  \/ LoadedSell
  \/ LoadedCheckExits
  \/ Tick

SpecLoad == InitArgs /\ [][NextLoad]_vars

(***************************************************************************)
(* A disk that refuses a write: store_path.write_text raises inside _save  *)
(***************************************************************************)
\* During one tool action every write succeeds, or the writes of
\* positions.json raise, or the writes of strategy.json raise.
Disks == {"ok", "positions", "memory"}

\* save_failed: a _save raised during the action; failed_lines: the
\* "AUTO-SELL FAILED" lines of an exit report.
DiskOutcome(op, result, save_failed, failed_lines) ==
  [op |-> op, result |-> result, save_failed |-> save_failed,
   failed_lines |-> failed_lines]

DiskRes(pm, mem, result, save_failed) ==
  [pm |-> pm, mem |-> mem, result |-> result, save_failed |-> save_failed]

\* add_trade_review up to the _save that raises: the review is appended, and
\* _auto_learn is not reached.
ReviewOnly(mem, reviewed) == [mem EXCEPT !.trade_reviews = reviewed.trade_reviews]

\* _execute_buy: open_position appends the position and the log entry, then
\* its _save raises.
DiskBuyResMutSwallow(r, mem, disk) ==
  DiskRes(r.pm, mem, r.result, r.result = "ok" /\ disk = "positions")
DiskBuyRes(r, mem, disk) ==
  IF r.result = "ok" /\ disk = "positions" THEN DiskRes(r.pm, mem, "raised", TRUE)
  ELSE DiskRes(r.pm, mem, r.result, FALSE)

\* _execute_sell: close_position saves first, add_trade_review after it.
DiskSellRes(r, mem, disk) ==
  IF r.result = "ok" /\ disk = "positions" THEN DiskRes(r.pm, mem, "raised", TRUE)
  ELSE IF r.result = "ok" /\ disk = "memory"
  THEN DiskRes(r.pm, ReviewOnly(mem, r.mem), "raised", TRUE)
  ELSE DiskRes(r.pm, r.mem, r.result, FALSE)

\* The token traded, the amount of a buy (0.1 SOL), and the notes a
\* behaviour stores.
DiskTokens   == {"T1"}
DiskAmounts  == {100000000}
MaxDiskNotes == 1

DiskBuy ==
  \E tok \in DiskTokens, amt \in DiskAmounts, disk \in Disks :
    \E r0 \in _execute_buy(PM, memory, tok, amt, now, dry_run) :
      LET r == DiskBuyRes(r0, memory, disk) IN
        /\ Len(r.pm.positions) <= MaxTrades
        /\ SetPM(r.pm)
        /\ last' = DiskOutcome("buy", r.result, r.save_failed, 0)
        /\ UNCHANGED <<memory, now, cfgvars>>

DiskSell ==
  \E tok \in DiskTokens, disk \in Disks :
    \E r0 \in _execute_sell(PM, memory, tok, now, dry_run) :
      LET r == DiskSellRes(r0, memory, disk) IN
        /\ SetPM(r.pm)
        /\ memory' = r.mem
        /\ last' = DiskOutcome("sell", r.result, r.save_failed, 0)
        /\ UNCHANGED <<now, cfgvars>>

\* _set_limits: the limits are assigned, then _save raises.
DiskSetLimits ==
  \E tok \in DiskTokens, lim \in Limits, disk \in Disks :
    LET r == _set_limits(PM, memory, tok, lim.sl, lim.tp)
        failed == r.result = "ok" /\ disk = "positions"
    IN  /\ SetPM(r.pm)
        /\ last' = DiskOutcome("set_limits", IF failed THEN "raised" ELSE r.result,
                               failed, 0)
        /\ UNCHANGED <<memory, now, cfgvars>>

\* _learn: add_user_note appends the note, then _save raises.
DiskLearn ==
  \E note \in ArgNotes, disk \in Disks :
    LET r == _learn(PM, memory, note, now)
        failed == r.result = "ok" /\ disk = "memory"
    IN  /\ Len(r.mem.session_notes) <= MaxDiskNotes
        /\ memory' = r.mem
        /\ last' = DiskOutcome("learn", IF failed THEN "raised" ELSE r.result, failed, 0)
        /\ UNCHANGED <<pmvars, now, cfgvars>>

\* _check_exits in simulation mode: nothing catches what close_position or
\* add_trade_review raises, so the loop ends at the first triggered position.
DiskExitDry(pm, mem, triggered, token_map, t, disk) ==
  IF disk = "ok"
  THEN LET s == ExitLoopDry([pm |-> pm, mem |-> mem, n |-> 0], pm.positions, triggered,
                            1, token_map, t)
       IN  [pm |-> s.pm, mem |-> s.mem, result |-> "exits", save_failed |-> FALSE,
            failed_lines |-> 0]
  ELSE LET r == ExitClose(pm, mem, pm.positions[triggered[1].idx], triggered[1].reason,
                          token_map, t)
       IN  [pm |-> r.pm,
            mem |-> IF disk = "positions" THEN mem ELSE ReviewOnly(mem, r.mem),
            result |-> "raised", save_failed |-> TRUE, failed_lines |-> 0]

\* _check_exits in live mode: what _execute_sell raises is caught per
\* position and becomes an "AUTO-SELL FAILED" line of the report.
RECURSIVE DiskExitLive(_, _, _, _, _, _)
DiskExitLive(S, ps0, triggered, k, t, disk) ==
  IF k > Len(triggered) THEN S
  ELSE DiskExitLive(
         UNION { { [pm |-> r.pm, mem |-> r.mem, result |-> "exits",
                    save_failed |-> s.save_failed \/ r.save_failed,
                    failed_lines |-> s.failed_lines
                                       + (IF r.result = "raised" THEN 1 ELSE 0)] :
                   r \in { DiskSellRes(r0, s.mem, disk) :
                             r0 \in _execute_sell(s.pm, s.mem,
                                                  ps0[triggered[k].idx].token_address,
                                                  t, FALSE) } } : s \in S },
         ps0, triggered, k + 1, t, disk)

DiskCheckExits ==
  /\ get_open_positions(positions) # <<>>
  /\ \E answer \in ExitAnswers(OpenTokens(positions)), disk \in Disks :
       LET prices    == [a \in DOMAIN answer |-> answer[a].price_usd]
           triggered == check_stop_loss_take_profit(positions, prices)
           s0        == [pm |-> PM, mem |-> memory, result |-> "exits",
                         save_failed |-> FALSE, failed_lines |-> 0]
       IN  /\ triggered # <<>>
           /\ \E r \in (IF dry_run
                        THEN {DiskExitDry(PM, memory, triggered, answer, now, disk)}
                        ELSE DiskExitLive({s0}, positions, triggered, 1, now, disk)) :
                /\ Closes(r.pm) <= MaxCloses
                /\ SetPM(r.pm)
                /\ memory' = r.mem
                /\ last' = DiskOutcome("check_exits", r.result, r.save_failed,
                                       r.failed_lines)
  /\ UNCHANGED <<now, cfgvars>>

\* The loop body of _scan_trending for one scored item, from state
\* s = [pm, mem, bought, raised, save_failed]: nothing catches what
\* _execute_buy or add_trade_review raises.
DiskScanItem(s, item, suggested, t, dr, auto, disk) ==
  IF s.raised \/ ~(IsCandidate(item) /\ auto /\ s.bought < MAX_AUTO_BUYS) THEN {s}
  ELSE { LET r == DiskBuyRes(r0, s.mem, disk) IN
         IF r.result = "raised"
         THEN [s EXCEPT !.pm = r.pm, !.raised = TRUE, !.save_failed = r.save_failed]
         ELSE IF HasMarker(r.result, item.token.symbol) THEN [s EXCEPT !.pm = r.pm]
         ELSE LET reviewed ==
                    add_trade_review(s.mem, item.token.address, item.token.symbol,
                                     "buy", 0, 0, item.score, item.buy_pct,
                                     item.token.liquidity_usd, 0, "auto_buy", t)
              IN  IF disk = "memory"
                  THEN [pm |-> r.pm, mem |-> ReviewOnly(s.mem, reviewed),
                        bought |-> s.bought + 1, raised |-> TRUE, save_failed |-> TRUE]
                  ELSE [pm |-> r.pm, mem |-> reviewed, bought |-> s.bought + 1,
                        raised |-> FALSE, save_failed |-> FALSE]
         : r0 \in _execute_buy(s.pm, s.mem, item.token.address, suggested, t, dr) }

RECURSIVE DiskScanLoop(_, _, _, _, _, _, _, _)
DiskScanLoop(S, top, k, suggested, t, dr, auto, disk) ==
  IF k > Len(top) THEN S
  ELSE DiskScanLoop(UNION { DiskScanItem(s, top[k], suggested, t, dr, auto, disk) :
                              s \in S },
                    top, k + 1, suggested, t, dr, auto, disk)

\* The scan finds the one token.
DiskScanAnswers == { <<Info("T1", 100, Strong)>> }

DiskScan ==
  /\ \E tokens \in DiskScanAnswers, bal \in Balances, disk \in Disks :
       LET scored == SortDesc(Scored(memory, tokens), <<>>)
           top    == SubSeq(scored, 1, Min2(TOP_N, Len(scored)))
           size   == suggest_trade_size(stats, risk.max_position_sol, bal)
       IN  \E r \in DiskScanLoop({[pm |-> PM, mem |-> memory, bought |-> 0,
                                   raised |-> FALSE, save_failed |-> FALSE]},
                                 top, 1, size, now, dry_run, autonomous, disk) :
             /\ Len(r.pm.positions) <= MaxTrades
             /\ SetPM(r.pm)
             /\ memory' = r.mem
             /\ last' = DiskOutcome("scan", IF r.raised THEN "raised" ELSE "ok",
                                    r.save_failed, 0)
  /\ UNCHANGED <<now, cfgvars>>

InitDisk ==
  /\ positions = <<>>
  /\ trade_log = <<>>
  /\ stats = [total_pnl_sol |-> 0, wins |-> 0, losses |-> 0]
  /\ memory = EmptyMemory
  /\ now = 1
  /\ dry_run \in BOOLEAN
  /\ autonomous = TRUE
  /\ last = DiskOutcome("init", "ok", FALSE, 0)

NextDisk ==
  \/ DiskBuy
  \/ DiskSell
  \/ DiskSetLimits
  \/ DiskLearn
  \/ DiskCheckExits
  \/ DiskScan
  \/ Tick

SpecDisk == InitDisk /\ [][NextDisk]_vars

(***************************************************************************)
(* check_exits in live mode, with the report line of every triggered       *)
(* position                                                                *)
(***************************************************************************)
\* idx: the triggered position; result: what its _execute_sell returned or
\* that it raised; line: the kind of line the report carries for it.
ExitLine(idx, result) ==
  [idx |-> idx, result |-> result,
   line |-> IF result = "raised" THEN "AUTO-SELL FAILED" ELSE "AUTO-SOLD"]

ExitOutcome(op, result, triggered, lines) ==
  [op |-> op, result |-> result, triggered |-> triggered, lines |-> lines]

\* The loop body for one triggered position, from state s = [pm, mem, lines]:
\* both branches of the try end in continue.
ExitLiveStepMutAbort(s, idx, tok, t) ==
  IF s.lines # <<>> /\ s.lines[Len(s.lines)].result # "ok" THEN {s}
  ELSE { [pm |-> r.pm, mem |-> r.mem, lines |-> Append(s.lines, ExitLine(idx, r.result))] :
           r \in _execute_sell(s.pm, s.mem, tok, t, FALSE) }
ExitLiveStep(s, idx, tok, t) ==
  { [pm |-> r.pm, mem |-> r.mem, lines |-> Append(s.lines, ExitLine(idx, r.result))] :
      r \in _execute_sell(s.pm, s.mem, tok, t, FALSE) }

RECURSIVE ExitLinesLive(_, _, _, _, _)
ExitLinesLive(S, ps0, triggered, k, t) ==
  IF k > Len(triggered) THEN S
  ELSE ExitLinesLive(
         UNION { ExitLiveStep(s, triggered[k].idx, ps0[triggered[k].idx].token_address, t) :
                   s \in S },
         ps0, triggered, k + 1, t)

CheckExitsLive ==
  /\ ~dry_run
  /\ IF get_open_positions(positions) = <<>>
     THEN /\ last' = ExitOutcome("check_exits", "no_open", <<>>, <<>>)
          /\ UNCHANGED <<pmvars, memory>>
     ELSE \/ /\ last' = ExitOutcome("check_exits", "raised", <<>>, <<>>)
             /\ UNCHANGED <<pmvars, memory>>
          \/ \E answer \in ExitAnswers(OpenTokens(positions)) :
               LET prices    == [a \in DOMAIN answer |-> answer[a].price_usd]
                   triggered == check_stop_loss_take_profit(positions, prices)
               IN  IF triggered = <<>>
                   THEN /\ last' = ExitOutcome("check_exits", "within_limits", <<>>, <<>>)
                        /\ UNCHANGED <<pmvars, memory>>
                   ELSE \E r \in ExitLinesLive({[pm |-> PM, mem |-> memory, lines |-> <<>>]},
                                               positions, triggered, 1, now) :
                          /\ Closes(r.pm) <= MaxCloses
                          /\ SetPM(r.pm)
                          /\ memory' = r.mem
                          /\ last' = ExitOutcome("check_exits", "exits",
                                                 [k \in 1..Len(triggered) |->
                                                    triggered[k].idx],
                                                 r.lines)
  /\ UNCHANGED <<now, cfgvars>>

\* swap with side=buy, in this specification's record of the latest action.
BuyBeforeExits ==
  \E tok \in Tokens, amt \in DiskAmounts :
    \E r \in _execute_buy(PM, memory, tok, amt, now, dry_run) :
      /\ Len(r.pm.positions) <= MaxTrades
      /\ SetPM(r.pm)
      /\ last' = ExitOutcome("buy", r.result, <<>>, <<>>)
      /\ UNCHANGED <<memory, now, cfgvars>>

InitExits ==
  /\ positions = <<>>
  /\ trade_log = <<>>
  /\ stats = [total_pnl_sol |-> 0, wins |-> 0, losses |-> 0]
  /\ memory = EmptyMemory
  /\ now = 1
  /\ dry_run = FALSE
  /\ autonomous = FALSE
  /\ last = ExitOutcome("init", "ok", <<>>, <<>>)

NextExits ==
  \/ BuyBeforeExits
  \/ CheckExitsLive
  \/ Tick

SpecExits == InitExits /\ [][NextExits]_vars

(***************************************************************************)
(* Two callers inside _execute_buy at once: a caller gives up control at   *)
(* every await, and each store mutation (open_position with its _save) is  *)
(* one indivisible step                                                    *)
(***************************************************************************)
Callers == {1, 2}

\* Where a caller stands: idle, or waiting for get_token_info ("info"),
\* get_swap_quote ("quote") or execute_swap ("swap"), with the locals it
\* holds by then.
Caller(pc, address, amount_sol, token, quote) ==
  [pc |-> pc, address |-> address, amount_sol |-> amount_sol, token |-> token,
   quote |-> quote]
IdleCaller == Caller("idle", "", 0, NoToken, Quote("none", 0, 0))

\* In this specification `last` holds the callers in flight.
InFlight(callers) == [op |-> "buy", callers |-> callers]

\* The call starts: should_avoid, then await get_token_info.
ConcStart(p) ==
  /\ last.callers[p].pc = "idle"
  /\ \E tok \in Tokens, amt \in DiskAmounts :
       /\ ~Avoided(memory, tok)
       /\ last' = InFlight([last.callers EXCEPT ![p] =
                              Caller("info", tok, amt, NoToken, Quote("none", 0, 0))])
  /\ UNCHANGED <<pmvars, memory, now, cfgvars>>

\* get_token_info answered: check_token_safety reads the positions and the
\* log as they are now, then await get_swap_quote.
ConcGate(p) ==
  /\ last.callers[p].pc = "info"
  /\ \E info \in InfoAnswers(BuyInfos(last.callers[p].address)), rpc \in HolderRpc :
       LET c == last.callers[p]
           safety == check_token_safety(info.token, risk, positions, trade_log,
                                        get_token_holders(rpc), c.amount_sol, now)
       IN  last' = InFlight([last.callers EXCEPT ![p] =
                               IF info.kind = "ok" /\ safety.safe
                               THEN Caller("quote", c.address, c.amount_sol, info.token,
                                           c.quote)
                               ELSE IdleCaller])
  /\ UNCHANGED <<pmvars, memory, now, cfgvars>>

\* get_swap_quote answered: the price-impact check, then await execute_swap.
ConcQuote(p) ==
  /\ last.callers[p].pc = "quote"
  /\ \E quote \in BuyQuotes :
       LET c == last.callers[p] IN
       last' = InFlight([last.callers EXCEPT ![p] =
                           IF quote.kind = "ok" /\ ~PriceImpactTooHigh(quote.price_impact_pct)
                           THEN Caller("swap", c.address, c.amount_sol, c.token, quote)
                           ELSE IdleCaller])
  /\ UNCHANGED <<pmvars, memory, now, cfgvars>>

\* execute_swap answered: open_position on the store as it is now.
ConcOpen(p) ==
  /\ last.callers[p].pc = "swap"
  /\ \E swap \in SwapAnswers(dry_run), send \in SendAnswers(dry_run) :
       LET c == last.callers[p] IN
       \E r \in BuyAfterSwap(PM, c.token, c.quote, c.amount_sol, now, dry_run, swap, send) :
         /\ Len(r.pm.positions) <= MaxTrades
         /\ SetPM(r.pm)
  /\ last' = InFlight([last.callers EXCEPT ![p] = IdleCaller])
  /\ UNCHANGED <<memory, now, cfgvars>>

InitConc ==
  /\ positions = <<>>
  /\ trade_log = <<>>
  /\ stats = [total_pnl_sol |-> 0, wins |-> 0, losses |-> 0]
  /\ memory = EmptyMemory
  /\ now = 1
  /\ dry_run \in BOOLEAN
  /\ autonomous = FALSE
  /\ last = InFlight([p \in Callers |-> IdleCaller])

NextConc ==
  \/ \E p \in Callers : ConcStart(p)
  \/ \E p \in Callers : ConcGate(p)
  \/ \E p \in Callers : ConcQuote(p)
  \/ \E p \in Callers : ConcOpen(p)
  \/ Tick

SpecConc == InitConc /\ [][NextConc]_vars

(***************************************************************************)
(* PositionManager called directly: open_position and close_position on   *)
(* any token, with positions.json as the calls leave it                    *)
(***************************************************************************)
\* Positions a behaviour opens.
MaxHeld == 3

\* [exit_price, sol_out, reason] of a close: a loss, a gain, break-even.
CloseArgs ==
  { <<80, 80000000, "stopped_out">>, <<160, 160000000, "took_profit">>,
    <<100, 100000000, "closed">> }

\* returned: the method's return value, a Position or None, as a sequence of
\* at most one position; store: the text of positions.json after the call.
PMCall(op, token, reason, returned, store) ==
  [op |-> op, token |-> token, reason |-> reason, returned |-> returned, store |-> store]

\* close_position with what it returns and what it leaves on disk: _save
\* runs inside the loop, on the match only.
close_position_call(pm, store, token, exit_price, sol_out, reason, t) ==
  LET i    == FirstOpen(pm.positions, token)
      next == close_position(pm, token, exit_price, sol_out, reason, t)
  IN  IF i = 0 THEN [pm |-> next, store |-> store, returned |-> <<>>]
      ELSE [pm |-> next, store |-> pm_dumps(next), returned |-> <<next.positions[i]>>]

OpenPosition ==
  /\ Len(positions) < MaxHeld
  /\ \E tok \in Tokens :
       LET next == open_position(PM, tok, Symbol(tok), 100, 1000, 100000000,
                                 risk.stop_loss_pct, risk.take_profit_pct, now)
       IN  /\ SetPM(next)
           /\ last' = PMCall("open_position", tok, "", <<next.positions[Len(next.positions)]>>,
                             pm_dumps(next))
  /\ UNCHANGED <<memory, now, cfgvars>>

ClosePosition ==
  /\ \E tok \in Tokens, a \in CloseArgs :
       LET r == close_position_call(PM, last.store, tok, a[1], a[2], a[3], now)
       IN  /\ SetPM(r.pm)
           /\ last' = PMCall("close_position", tok, a[3], r.returned, r.store)
  /\ UNCHANGED <<memory, now, cfgvars>>

InitPM ==
  /\ positions = <<>>
  /\ trade_log = <<>>
  /\ stats = [total_pnl_sol |-> 0, wins |-> 0, losses |-> 0]
  /\ memory = EmptyMemory
  /\ now = 1
  /\ dry_run = TRUE
  /\ autonomous = FALSE
  /\ last = PMCall("init", "", "", <<>>, NoStore)

NextPM ==
  \/ OpenPosition
  \/ ClosePosition
  \/ Tick

SpecPM == InitPM /\ [][NextPM]_vars

(***************************************************************************)
(* The slippage an executed swap asks the router for: every entry point    *)
(* that reaches _execute_buy or _execute_sell, with the slippage it hands  *)
(* over (both pass it unchanged to get_swap_quote)                         *)
(***************************************************************************)
\* slippage_bps as the caller supplies it (0 is the parameter's default).
SlippageArgs == {0 - 50, 0, 100, 300, 500}

\* _swap: slippage = min(slippage_bps or max_slippage_bps, max_slippage_bps).
slippageMutNoCap(slippage_bps, rk) ==
  IF slippage_bps # 0 THEN slippage_bps ELSE rk.max_slippage_bps
slippage(slippage_bps, rk) ==
  Min2(IF slippage_bps # 0 THEN slippage_bps ELSE rk.max_slippage_bps,
       rk.max_slippage_bps)

\* handed: the slippage arguments of the _execute_buy/_execute_sell calls the
\* handler made (one value, since a handler passes the same one every time).
SlipOutcome(op, side, slippage_bps, result, handed) ==
  [op |-> op, side |-> side, slippage_bps |-> slippage_bps, result |-> result,
   handed |-> handed]

SlipSwap ==
  \E tok \in DiskTokens, amt \in DiskAmounts, side \in {"buy", "sell"},
     slippage_bps \in SlippageArgs :
    \E r \in _swap(PM, memory, tok, amt, side, now, dry_run) :
      /\ Len(r.pm.positions) <= MaxTrades
      /\ Closes(r.pm) <= MaxCloses
      /\ SetPM(r.pm)
      /\ memory' = r.mem
      /\ last' = SlipOutcome("swap", side, slippage_bps, r.result,
                             <<slippage(slippage_bps, risk)>>)
      /\ UNCHANGED <<now, cfgvars>>

SlipScan ==
  /\ \/ /\ last' = SlipOutcome("scan", "", 0, "raised", <<>>)
        /\ UNCHANGED <<pmvars, memory>>
     \/ \E tokens \in DiskScanAnswers :
          \/ /\ last' = SlipOutcome("scan", "", 0, "raised", <<>>)
             /\ UNCHANGED <<pmvars, memory>>
          \/ \E bal \in Balances :
               LET scored == SortDesc(Scored(memory, tokens), <<>>)
                   top    == SubSeq(scored, 1, Min2(TOP_N, Len(scored)))
                   size   == suggest_trade_size(stats, risk.max_position_sol, bal)
                   handed == IF autonomous /\ \E k \in 1..Len(top) : IsCandidate(top[k])
                             THEN <<risk.max_slippage_bps>> ELSE <<>>
               IN  \E r \in ScanLoop({[pm |-> PM, mem |-> memory, bought |-> 0,
                                       raised |-> FALSE]},
                                     top, 1, size, now, dry_run, autonomous) :
                     /\ Len(r.pm.positions) <= MaxTrades
                     /\ SetPM(r.pm)
                     /\ memory' = r.mem
                     /\ last' = SlipOutcome("scan", "", 0,
                                            IF r.raised THEN "raised" ELSE "ok", handed)
  /\ UNCHANGED <<now, cfgvars>>

SlipCheckExits ==
  /\ IF get_open_positions(positions) = <<>>
     THEN /\ last' = SlipOutcome("check_exits", "", 0, "no_open", <<>>)
          /\ UNCHANGED <<pmvars, memory>>
     ELSE \/ /\ last' = SlipOutcome("check_exits", "", 0, "raised", <<>>)
             /\ UNCHANGED <<pmvars, memory>>
          \/ \E answer \in ExitAnswers(OpenTokens(positions)) :
               LET prices    == [a \in DOMAIN answer |-> answer[a].price_usd]
                   triggered == check_stop_loss_take_profit(positions, prices)
               IN  IF triggered = <<>>
                   THEN /\ last' = SlipOutcome("check_exits", "", 0, "within_limits", <<>>)
                        /\ UNCHANGED <<pmvars, memory>>
                   ELSE \E r \in ExitLoop(PM, memory, triggered, answer, now, dry_run) :
                          /\ Closes(r.pm) <= MaxCloses
                          /\ SetPM(r.pm)
                          /\ memory' = r.mem
                          /\ last' = SlipOutcome("check_exits", "", 0, "exits",
                                                 IF dry_run THEN <<>>
                                                 ELSE <<risk.max_slippage_bps>>)
  /\ UNCHANGED <<now, cfgvars>>

InitSlip ==
  /\ positions = <<>>
  /\ trade_log = <<>>
  /\ stats = [total_pnl_sol |-> 0, wins |-> 0, losses |-> 0]
  /\ memory = EmptyMemory
  /\ now = 1
  /\ dry_run \in BOOLEAN
  /\ autonomous = TRUE
  /\ last = SlipOutcome("init", "", 0, "ok", <<>>)

NextSlip ==
  \/ SlipSwap
  \/ SlipScan
  \/ SlipCheckExits
  \/ Tick

SpecSlip == InitSlip /\ [][NextSlip]_vars

(***************************************************************************)
(* LiteLLMProvider.chat (providers/litellm_provider.py): the completion    *)
(* loop.  A call gives up control at await acompletion and at              *)
(* await asyncio.sleep; durations are in tenths of a second                *)
(***************************************************************************)
max_retries == 3

\* str(e) of a failed attempt, as far as chat reads it: whether it contains
\* "rate_limit" (any case), whether it contains "429", and the number after
\* "try again in" when it has one.
Err(rate_limit, code429, hint) ==
  [rate_limit |-> rate_limit, code429 |-> code429, hint |-> hint]

\* Failures of an attempt: rate limits without a delay, with 4.5 s and with
\* 75.5 s, a 429 without the words, and two other errors (one of which
\* mentions a delay).
ChatErrors ==
  { Err(TRUE, FALSE, <<>>), Err(TRUE, TRUE, <<45>>), Err(TRUE, FALSE, <<755>>),
    Err(FALSE, TRUE, <<>>), Err(FALSE, FALSE, <<>>), Err(FALSE, FALSE, <<45>>) }

\* What one attempt (acompletion, _parse_response, the text tool-call parse)
\* ends with.
Completions ==
  { [kind |-> "ok", err |-> Err(FALSE, FALSE, <<>>)],
    [kind |-> "text_tool_calls", err |-> Err(FALSE, FALSE, <<>>)] }
  \cup { [kind |-> "raise", err |-> e] : e \in ChatErrors }

IsRateLimit(err) == err.rate_limit \/ err.code429

_parse_retry_delayMutNoCap(err) ==
  IF err.hint # <<>> THEN err.hint[1] + 10 ELSE 300
_parse_retry_delay(err) ==
  IF err.hint # <<>> THEN Min2(err.hint[1] + 10, 600) ELSE 300

LLMResponse(content, finish_reason) ==
  [content |-> content, finish_reason |-> finish_reason]
NoResponse == LLMResponse(<<>>, "")
ErrorCallingLLM(err) == LLMResponse(<<"Error calling LLM: ", err>>, "error")
RateLimitedAfterRetries ==
  LLMResponse(<<"Rate limited after retries. Try again shortly.">>, "error")

\* A call of chat: where it is, the loop variable, the completions it has
\* awaited with what they ended with, the sleeps it took, and what it returned.
ChatState(pc, attempt, seen, waits, response) ==
  [pc |-> pc, attempt |-> attempt, seen |-> seen, waits |-> waits,
   response |-> response]

\* chat is called: the request is built and the loop entered.
ChatCall ==
  /\ last.pc \in {"init", "done"}
  /\ last' = ChatState("attempt", 0, <<>>, <<>>, NoResponse)
  /\ UNCHANGED <<pmvars, memory, now, cfgvars>>

\* One pass of the loop body, up to the return or the sleep.
ChatAttempt ==
  /\ last.pc = "attempt"
  /\ \E c \in Completions :
       LET seen == Append(last.seen, c) IN
       last' =
         IF c.kind = "ok"
         THEN ChatState("done", last.attempt, seen, last.waits,
                        LLMResponse(<<"completion">>, "stop"))
         ELSE IF c.kind = "text_tool_calls"
         THEN ChatState("done", last.attempt, seen, last.waits,
                        LLMResponse(<<"clean">>, "tool_calls"))
         ELSE IF IsRateLimit(c.err) /\ last.attempt < max_retries - 1
         THEN ChatState("sleep", last.attempt, seen,
                        Append(last.waits, _parse_retry_delay(c.err)), NoResponse)
         ELSE ChatState("done", last.attempt, seen, last.waits, ErrorCallingLLM(c.err))
  /\ UNCHANGED <<pmvars, memory, now, cfgvars>>

\* The sleep ends: continue with the next value of range(max_retries), or
\* leave the loop when there is none.
ChatWake ==
  /\ last.pc = "sleep"
  /\ last' = IF last.attempt + 1 < max_retries
             THEN [last EXCEPT !.pc = "attempt", !.attempt = @ + 1]
             ELSE [last EXCEPT !.pc = "done", !.response = RateLimitedAfterRetries]
  /\ UNCHANGED <<pmvars, memory, now, cfgvars>>

InitChat ==
  /\ positions = <<>>
  /\ trade_log = <<>>
  /\ stats = [total_pnl_sol |-> 0, wins |-> 0, losses |-> 0]
  /\ memory = EmptyMemory
  /\ now = 1
  /\ dry_run = TRUE
  /\ autonomous = FALSE
  /\ last = ChatState("init", 0, <<>>, <<>>, NoResponse)

NextChat ==
  \/ ChatCall
  \/ ChatAttempt
  \/ ChatWake

SpecChat == InitChat /\ [][NextChat]_vars

\* Every awaited completion returns or raises, and every sleep ends.
SpecChatFair == SpecChat /\ WF_vars(ChatAttempt) /\ WF_vars(ChatWake)

(***************************************************************************)
(* Properties                                                              *)
(***************************************************************************)
SeqIdx(s) == 1..Len(s)
ClosedIdx(ps) == { i \in SeqIdx(ps) : ps[i].status # "open" }
SellIdx(log) == { i \in SeqIdx(log) : log[i].action = "sell" }

\* The realized pnl_sol of the sell entries log[1..n], recomputed in full.
RECURSIVE RealizedPnl(_, _)
RealizedPnl(log, n) ==
  IF n = 0 THEN 0
  ELSE RealizedPnl(log, n - 1)
       + (IF log[n].action = "sell" THEN log[n].sol_out - log[n].sol_in ELSE 0)

ClosedNow == { i \in SeqIdx(positions) : positions[i].status = "open"
                                          /\ positions'[i].status # "open" }

Elems(s) == { s[i] : i \in SeqIdx(s) }
OpenFor(ps, tok) == { i \in OpenIdx(ps) : ps[i].token_address = tok }
\* Positions an action appends for the token.
OpenedNow(tok) ==
  { j \in SeqIdx(positions') \ SeqIdx(positions) : positions'[j].token_address = tok }

OnAvoidList(mem, tok) == \E i \in SeqIdx(mem.avoid_tokens) : mem.avoid_tokens[i].address = tok

Profiles == {Strong, Weak, LowLiq, LowBoth}
HolderAnswers == { get_token_holders(rpc) : rpc \in HolderRpcAll }
                 \cup { Holders("malformed", 0, 0) }
HoldersFine == get_token_holders([kind |-> "accounts", amounts |-> <<50, 50>>])
HoldersTopHeavy == get_token_holders([kind |-> "accounts", amounts |-> <<100>>])
\* Market profile and holder answer pairs the gate is asked about.
GateCases ==
  { <<Strong, HoldersFine>>, <<LowLiq, HoldersFine>>, <<Weak, HoldersTopHeavy>>,
    <<LowBoth, Holders("raise", 0, 0)>>, <<LowLiq, Holders("malformed", 0, 0)>>,
    <<LowBoth, get_token_holders([kind |-> "empty", amounts |-> <<>>])>>,
    <<Strong, get_token_holders([kind |-> "accounts", amounts |-> <<90, 10>>])>> }

\* C6: check_token_safety runs every check: the reasons hold exactly one
\* entry per failing condition (in the order of the checks) and nothing
\* else, safe is true exactly when there is no reason, and a token failing
\* only the liquidity minimum gets safe = false with the liquidity reason
\* alone.
C6_AllChecksCollected ==
  /\ \A tok \in Tokens, amt \in BuyAmounts, c \in GateCases :
        LET pf    == c[1]
            h     == c[2]
            r     == check_token_safety(Info(tok, 100, pf), risk, positions, trade_log,
                                        h, amt, now)
            lt    == get_last_trade_time(trade_log, tok)
        IN  /\ r.safe <=> r.reasons = <<>>
            /\ r.reasons =
                 When(pf.liq < risk.min_liquidity_usd, "liquidity")
                 \o When(pf.vol < risk.min_volume_24h_usd, "volume")
                 \o When(amt > risk.max_position_sol, "position_size")
                 \o When(get_total_sol_invested(positions) + amt > risk.max_portfolio_sol,
                         "exposure")
                 \o When(lt # NoTime /\ now - lt < risk.cooldown_seconds, "cooldown")
                 \o When(OpenFor(positions, tok) # {}, "duplicate")
                 \o When(h.kind = "ok" /\ h.holder_count < risk.min_holder_count,
                         "holder_count")
                 \o When(h.kind = "ok" /\ h.top_holder_pct > risk.max_top_holder_pct,
                         "top_holder")
                 \o When(h.kind # "ok", "holder_check_failed")
            /\ r.score = _compute_trend_score(Info(tok, 100, pf))
  /\ \A tok \in Tokens :
        LET r == check_token_safety(Info(tok, 100, LowLiq), risk, <<>>, <<>>, HoldersFine,
                                    risk.max_position_sol, now)
        IN  ~r.safe /\ r.reasons = <<"liquidity">>

\* A buy was turned down with three reasons at once.
C6_SeveralReasons ==
  /\ last.op = "buy" /\ last.result = "blocked_safety"
  /\ {"position_size", "exposure", "duplicate"} \subseteq Elems(last.reasons)

\* C7: the holder check fails closed.  When the holder query raises or gives
\* a result without the fields, or the RPC answer behind it is unusable, the
\* gate answers safe = false with a holder reason and the buy ends as
\* blocked, with positions, trade log and stats as they were.
C7_HolderCheckFailsClosed ==
  \A tok \in Tokens, amt \in BuyAmounts :
    \A h \in { x \in HolderAnswers : x.kind # "ok" }
            \cup { get_token_holders([kind |-> "empty", amounts |-> <<>>]) } :
      LET token == Info(tok, 100, Strong)
          r     == check_token_safety(token, risk, positions, trade_log, h, amt, now)
      IN  /\ ~r.safe
          /\ Elems(r.reasons) \cap {"holder_check_failed", "holder_count", "top_holder"} # {}
          /\ h.kind # "ok" => "holder_check_failed" \in Elems(r.reasons)
          /\ BuyAfterSafety(PM, token, r, amt, now, dry_run)
               = {BuyRes(PM, "blocked_safety", {GTI, GTH}, r.reasons)}

\* A buy was turned down for the failed holder check alone.
C7_BlockedByHolderCheck ==
  /\ last.op = "buy" /\ last.result = "blocked_safety"
  /\ last.reasons = <<"holder_check_failed">>

\* Price impacts a quote may carry, on both sides of the 5% limit.
Impacts == {-6, -5, 0, 5, 6}

\* C8: a buy whose quote has |price_impact_pct| > 5 ends as blocked after the
\* safety gate passed: execute_swap is not called, and positions, trade log
\* and stats stay as they were; an impact of at most 5 does not block.
C8_ImpactGuard ==
  /\ \A tok \in Tokens, amt \in BuyAmounts, i \in Impacts :
        LET rs == BuyAfterQuote(PM, Info(tok, 100, Strong), Quote("ok", i, 1000), amt,
                                now, dry_run)
        IN  IF i > 5 \/ i < -5
            THEN rs = {BuyRes(PM, "blocked_impact", {GTI, GTH, GSQ}, <<>>)}
            ELSE \A r \in rs : r.result # "blocked_impact" /\ EXS \in r.calls
  /\ last.result = "blocked_impact" => EXS \notin last.calls /\ GTH \in last.calls

\* A buy was blocked for its price impact while a position was open.
C8_BlockedByImpact ==
  /\ last.op = "buy" /\ last.result = "blocked_impact"
  /\ OpenIdx(positions) # {}

\* The reviews an action appends.
ReviewedNow ==
  { k \in SeqIdx(memory'.trade_reviews) : k > Len(memory.trade_reviews) }

\* C9: in the exit-check cycle every position that leaves 'open' gets a trade
\* review whose reason is the triggering reason, stopped_out or took_profit,
\* in simulation mode and in live mode.
C9_ReviewCarriesTrigger ==
  [][ last'.op = "check_exits" =>
        \A i \in ClosedNow :
          \E k \in ReviewedNow :
            LET review == memory'.trade_reviews[k]
            IN  /\ review.token = positions[i].token_address
                /\ review.side = "sell"
                /\ review.reason \in {"stopped_out", "took_profit"}
                /\ dry_run => review.reason = positions'[i].status ]_vars

\* Prices an exit check may see for a token, around the limits of a position
\* entered at 100.
TriggerPrices == {0, 80, 90, 91, 100, 120, 149, 150, 151}
PriceMaps == UNION { [S -> TriggerPrices] : S \in SUBSET Tokens }

\* C10: check_stop_loss_take_profit reports an open position with a known
\* price p as stopped_out iff p <= stop_loss_price, as took_profit iff
\* p > stop_loss_price and p >= take_profit_price, and not at all otherwise;
\* every position is reported at most once, in list order, and positions
\* that are not open or have no price are not reported.
C10_TriggerRule ==
  \A prices \in PriceMaps :
    LET res == check_stop_loss_take_profit(positions, prices)
        rep(i) == { k \in SeqIdx(res) : res[k].idx = i }
    IN  /\ \A k \in SeqIdx(res) : res[k].idx \in SeqIdx(positions)
        /\ \A k \in SeqIdx(res) : k > 1 => res[k - 1].idx < res[k].idx
        /\ \A i \in SeqIdx(positions) :
              LET pos == positions[i]
                  tok == pos.token_address
              IN  IF pos.status # "open" \/ tok \notin DOMAIN prices
                  THEN rep(i) = {}
                  ELSE LET p == prices[tok]
                       IN  IF p <= pos.stop_loss_price
                           THEN \E k \in rep(i) : rep(i) = {k} /\ res[k].reason = "stopped_out"
                           ELSE IF p >= pos.take_profit_price
                           THEN \E k \in rep(i) : rep(i) = {k} /\ res[k].reason = "took_profit"
                           ELSE rep(i) = {}

\* An exit check closed a position at a limit while another stayed open.
C10_TriggeredAtLimit ==
  /\ last.op = "check_exits" /\ last.result = "exits"
  /\ \E i \in ClosedIdx(positions) : positions[i].status \in {"stopped_out", "took_profit"}
  /\ OpenIdx(positions) # {}

\* C11: every position opened or re-limited with positive stop-loss and
\* take-profit percentages has stop_loss_price < entry_price_usd <
\* take_profit_price, whatever entry price the market returned (0 included).
C11_LimitsBracketEntry ==
  \A i \in SeqIdx(positions) :
    /\ positions[i].stop_loss_price < positions[i].entry_price_usd
    /\ positions[i].entry_price_usd < positions[i].take_profit_price

\* Prices an exit check may report at or below a stop-loss (0.85 and 0.90
\* for an entry at 1.00), and the outcome of a simulation-mode exit check
\* that is told price P for the token of position i.
StopPrices == {85, 90}
ExitCheckAt(i, P) ==
  LET tok       == positions[i].token_address
      answer    == [a \in {tok} |-> Info(tok, P, Strong)]
      prices    == [a \in {tok} |-> P]
      triggered == check_stop_loss_take_profit(positions, prices)
  IN  ExitLoopDry([pm |-> PM, mem |-> memory, n |-> 0], positions, triggered, 1,
                  answer, now)

\* C12: in simulation mode a buy at entry price E with stop-loss s% and
\* take-profit t% creates a position with stop_loss_price = E*(1-s/100) and
\* take_profit_price = E*(1+t/100), and an exit check at a price P at or below
\* the stop-loss leaves the position stopped_out and records
\* pnl_pct = (P-E)/E*100: E = 1.00, s = 10, t = 50 give 0.90 and 1.50, and
\* P = 0.85 gives -15.
C12_BuyThenStopOut ==
  [][ dry_run =>
        /\ (last'.op = "buy" /\ last'.result = "ok") =>
              \A j \in SeqIdx(positions') \ SeqIdx(positions) :
                LET pos == positions'[j]
                    E   == pos.entry_price_usd
                IN  /\ pos.stop_loss_price * 100 = E * (100 - risk.stop_loss_pct)
                    /\ pos.take_profit_price * 100 = E * (100 + risk.take_profit_pct)
                    /\ E = 100 => pos.stop_loss_price = 90 /\ pos.take_profit_price = 150
        /\ \A i \in OpenIdx(positions), P \in StopPrices :
              P <= positions[i].stop_loss_price =>
                LET r     == ExitCheckAt(i, P)
                    E     == positions[i].entry_price_usd
                    entry == r.pm.trade_log[Len(r.pm.trade_log)]
                IN  /\ r.pm.positions[i].status = "stopped_out"
                    /\ entry.action = "sell"
                    /\ entry.token = positions[i].token_address
                    /\ entry.pnl_pct * E = (P - E) * 100000
                    /\ (E = 100 /\ P = 85) => entry.pnl_pct = -15000
        /\ last'.op = "check_exits" =>
              \A i \in ClosedNow :
                \E k \in SeqIdx(trade_log') \ SeqIdx(trade_log) :
                  LET entry == trade_log'[k]
                      E     == positions[i].entry_price_usd
                  IN  /\ entry.action = "sell"
                      /\ entry.token = positions[i].token_address
                      /\ entry.exit_price <= positions[i].stop_loss_price =>
                            /\ positions'[i].status = "stopped_out"
                            /\ entry.pnl_pct * E = (entry.exit_price - E) * 100000 ]_vars

\* A simulation-mode exit check at 0.90 stopped out a position bought at 1.00
\* with the limits 0.90 and 1.50, and logged -10%.
C12_StoppedOut ==
  /\ dry_run
  /\ last.op = "check_exits" /\ last.result = "exits"
  /\ \E i \in SeqIdx(positions) :
       /\ positions[i].status = "stopped_out"
       /\ positions[i].entry_price_usd = 100
       /\ positions[i].stop_loss_price = 90
       /\ positions[i].take_profit_price = 150
  /\ trade_log[Len(trade_log)].action = "sell"
  /\ trade_log[Len(trade_log)].exit_price = 90
  /\ trade_log[Len(trade_log)].pnl_pct = -10000

\* new is old with exactly one entry appended and then cut to the newest
\* MEM_LIMIT entries.
AppendedOne(old, new) ==
  /\ new # <<>>
  /\ new = Last(Append(old, new[Len(new)]), MEM_LIMIT)

\* C13: every add_trade_review call appends exactly one trade review; it
\* appends exactly one lesson, of source auto_loss, if pnl_pct <= -30, and
\* exactly one, of source auto_win, if pnl_pct >= 50; for -30 < pnl_pct < 50
\* it adds no lesson, no avoid entry and no pattern.
C13_ReviewAndLesson ==
  [][ last'.op = "add_trade_review" =>
        LET pnl_pct == last'.pnl_pct
            reviews == memory'.trade_reviews
            lessons == memory'.lessons
        IN  /\ AppendedOne(memory.trade_reviews, reviews)
            /\ reviews[Len(reviews)].token = last'.address
            /\ reviews[Len(reviews)].pnl_pct = Round2Pct(pnl_pct)
            /\ reviews[Len(reviews)].time = now
            /\ memory'.session_notes = memory.session_notes
            /\ pnl_pct <= -30000 =>
                  /\ AppendedOne(memory.lessons, lessons)
                  /\ lessons[Len(lessons)].source = "auto_loss"
                  /\ lessons[Len(lessons)].time = now
            /\ pnl_pct >= 50000 =>
                  /\ AppendedOne(memory.lessons, lessons)
                  /\ lessons[Len(lessons)].source = "auto_win"
                  /\ lessons[Len(lessons)].time = now
            /\ (-30000 < pnl_pct /\ pnl_pct < 50000) =>
                  /\ lessons = memory.lessons
                  /\ memory'.avoid_tokens = memory.avoid_tokens
                  /\ memory'.prefer_patterns = memory.prefer_patterns ]_vars

\* A review with pnl_pct exactly -30 was recorded in a full memory and left
\* an auto_loss lesson as the newest of the 200 lessons.
C13_LossAtBoundary ==
  /\ last.op = "add_trade_review" /\ last.pnl_pct = -30000
  /\ Len(memory.lessons) = MEM_LIMIT
  /\ memory.lessons[MEM_LIMIT].source = "auto_loss"
  /\ memory.trade_reviews[MEM_LIMIT].pnl_pct = -30000

Listed(mem, address) ==
  \E i \in SeqIdx(mem.avoid_tokens) : mem.avoid_tokens[i].address = address
\* Reviews of the memory that record a loss of 30% or more on the token.
LossReviews(mem, address) ==
  { k \in SeqIdx(mem.trade_reviews) :
      /\ mem.trade_reviews[k].token = address
      /\ mem.trade_reviews[k].pnl_pct <= -30000 }

\* C14 as stated: an add_trade_review with pnl_pct <= -30 produces exactly
\* one new avoid-list entry for the token in every memory state, also when the
\* token was lost on before.
C14_AlwaysOneNewAvoid ==
  [][ (last'.op = "add_trade_review" /\ last'.pnl_pct <= -30000) =>
        /\ Len(memory'.avoid_tokens) = Len(memory.avoid_tokens) + 1
        /\ memory'.avoid_tokens[Len(memory'.avoid_tokens)].address = last'.address ]_vars

\* C14, amended: an add_trade_review with pnl_pct <= -30 appends exactly one
\* avoid-list entry for the token, with the reason "Lost <pnl>% - <reason>",
\* when the token is not yet on the list, and leaves the avoid list as it is
\* when the token is already on it.
C14_OneNewAvoidUnlessListed ==
  [][ (last'.op = "add_trade_review" /\ last'.pnl_pct <= -30000) =>
        IF Listed(memory, last'.address)
        THEN memory'.avoid_tokens = memory.avoid_tokens
        ELSE LET review == memory'.trade_reviews[Len(memory'.trade_reviews)]
             IN  memory'.avoid_tokens =
                   Append(memory.avoid_tokens,
                          [address |-> last'.address,
                           reason  |-> <<"Lost", Fmt0(last'.pnl_pct), review.reason>>,
                           time    |-> now]) ]_vars

\* The token was lost on twice and the avoid list holds the one entry of the
\* first loss.
C14_SecondLoss ==
  /\ last.op = "add_trade_review" /\ last.pnl_pct = -30000
  /\ Cardinality(LossReviews(memory, last.address)) = 2
  /\ Len(memory.avoid_tokens) = 1
  /\ memory.avoid_tokens[1].address = last.address
  /\ memory.avoid_tokens[1].reason = <<"Lost", -35, "manual_sell">>

\* The pattern a winning review encodes: score, buy ratio, liquidity.
PatternOf(review) == <<review.trend_score, Fmt0(review.buy_ratio), review.liquidity_usd>>
Stored(mem, pattern) ==
  \E i \in SeqIdx(mem.prefer_patterns) : mem.prefer_patterns[i] = pattern

\* C15 as stated: an add_trade_review with pnl_pct >= 50 produces one new
\* winning pattern in every memory state, also when an identical pattern is
\* already stored.
C15_AlwaysOneNewPattern ==
  [][ (last'.op = "add_trade_review" /\ last'.pnl_pct >= 50000) =>
        Len(memory'.prefer_patterns) = Len(memory.prefer_patterns) + 1 ]_vars

\* C15, amended: an add_trade_review with pnl_pct >= 50 appends one pattern
\* encoding the score, buy ratio and liquidity of the win when no identical
\* pattern is stored, and leaves the patterns as they are when one is.
C15_OneNewPatternUnlessStored ==
  [][ (last'.op = "add_trade_review" /\ last'.pnl_pct >= 50000) =>
        LET pattern == PatternOf(memory'.trade_reviews[Len(memory'.trade_reviews)])
        IN  IF Stored(memory, pattern)
            THEN memory'.prefer_patterns = memory.prefer_patterns
            ELSE memory'.prefer_patterns = Append(memory.prefer_patterns, pattern) ]_vars

\* Two wins with the same score, buy ratio and liquidity were reviewed and
\* one pattern is stored.
C15_SecondWin ==
  /\ last.op = "add_trade_review" /\ last.pnl_pct = 50000
  /\ Len(memory.trade_reviews) = 2
  /\ memory.trade_reviews[1].pnl_pct = 60000
  /\ memory.prefer_patterns = <<PatternOf(memory.trade_reviews[2])>>

\* C16: the avoid list holds at most one entry per address, and the first
\* reason recorded for an address stays: once should_avoid(a) returns r1, it
\* returns r1 after every later add_avoid(a, r), direct or through auto-learn;
\* an add_avoid(a, r1) for an unlisted address makes should_avoid(a) return r1.
C16_FirstReasonWins ==
  [][ /\ \A i, j \in SeqIdx(memory'.avoid_tokens) :
            memory'.avoid_tokens[i].address = memory'.avoid_tokens[j].address => i = j
      /\ \A a \in Tokens :
            Listed(memory, a) => should_avoid(memory', a) = should_avoid(memory, a)
      /\ (last'.op = "add_avoid" /\ ~Listed(memory, last'.address)) =>
            should_avoid(memory', last'.address) = last'.text ]_vars

\* add_avoid was called with a second reason for a listed address, and
\* should_avoid still returns the first one.
C16_SecondReasonDropped ==
  /\ last.op = "add_avoid"
  /\ last.text = <<"Lost", -90, "stopped_out">>
  /\ should_avoid(memory, last.address) = <<"Lost", -40, "manual_sell">>
  /\ Len(memory.avoid_tokens) = 1

\* The store after a call: what _save wrote, read back.
Persisted(mem) == mem_load(json_dumps(mem))

\* new holds the newest MEM_LIMIT entries of old followed by the k entries,
\* stamped with the time of the call, that the call appended; the list held
\* at most MEM_LIMIT + 1 entries before the trim.
Bounded(old, new, k) ==
  /\ Len(new) <= MEM_LIMIT
  /\ Len(old) + k <= MEM_LIMIT + 1
  /\ IF k = 0 THEN new = old
     ELSE /\ AppendedOne(old, new)
          /\ new[Len(new)].time = now

\* Entries a call appends to lessons, trade_reviews and session_notes.
Appends(call) ==
  [ lessons       |-> IF \/ call.op = "add_lesson"
                         \/ /\ call.op = "add_trade_review"
                            /\ (call.pnl_pct <= -30000 \/ call.pnl_pct >= 50000)
                      THEN 1 ELSE 0,
    trade_reviews |-> IF call.op = "add_trade_review" THEN 1 ELSE 0,
    session_notes |-> IF call.op = "add_user_note" THEN 1 ELSE 0 ]

\* C17: after every mutating StrategyMemory call the persisted lessons,
\* trade_reviews and session_notes hold at most 200 entries each, the most
\* recently appended ones in order; within a call no collection exceeds 201
\* entries before the trim.
C17_BoundedToNewest ==
  [][ LET k == Appends(last')
      IN  /\ Persisted(memory') = memory'
          /\ Bounded(memory.lessons, memory'.lessons, k.lessons)
          /\ Bounded(memory.trade_reviews, memory'.trade_reviews, k.trade_reviews)
          /\ Bounded(memory.session_notes, memory'.session_notes, k.session_notes) ]_vars

\* A note was added to a memory holding 200 notes: the oldest one is gone,
\* the other 199 and the new one are stored.
C17_TrimmedNote ==
  /\ last.op = "add_user_note"
  /\ Len(memory.session_notes) = MEM_LIMIT
  /\ memory.session_notes[1] = OldNote(2)
  /\ memory.session_notes[MEM_LIMIT].note = last.text

IsPrefix(old, new) ==
  /\ Len(old) <= Len(new)
  /\ \A i \in SeqIdx(old) : new[i] = old[i]
\* new keeps the entries of old in order, except for the d oldest ones, and
\* some are gone only if new is at the 200-entry limit.
OldestTrimmed(old, new) ==
  \E d \in 0..Len(old) :
    /\ d > 0 => Len(new) = MEM_LIMIT
    /\ Len(new) >= Len(old) - d
    /\ \A i \in 1..(Len(old) - d) : new[i] = old[d + i]

\* C18: memory is append-only: no avoid-list entry and no pattern is ever
\* removed or altered, and a lesson, note or review is removed only by the
\* 200-entry trim, oldest first (the entries that stay are unaltered).
C18_AppendOnly ==
  [][ /\ IsPrefix(memory.avoid_tokens, memory'.avoid_tokens)
      /\ IsPrefix(memory.prefer_patterns, memory'.prefer_patterns)
      /\ OldestTrimmed(memory.lessons, memory'.lessons)
      /\ OldestTrimmed(memory.session_notes, memory'.session_notes)
      /\ OldestTrimmed(memory.trade_reviews, memory'.trade_reviews) ]_vars

\* A lesson was added to a memory holding 200 lessons and one avoid entry:
\* the oldest lesson was trimmed, the avoid entry is still there.
C18_OldestLessonTrimmed ==
  /\ last.op = "add_lesson"
  /\ Len(memory.lessons) = MEM_LIMIT
  /\ memory.lessons[1] = OldLesson(2)
  /\ memory.lessons[MEM_LIMIT].lesson = last.text
  /\ Len(memory.avoid_tokens) = 1

\* C19: after add_lesson(t) persists, a fresh StrategyMemory loaded from the
\* same store returns [t] from get_lessons(1), whatever was stored before.
C19_LessonRoundTrip ==
  [][ last'.op = "add_lesson" =>
        get_lessons(mem_load(json_dumps(memory')), 1) = <<last'.text>> ]_vars

\* A lesson was added after 200 others, and the reloaded store returns it.
C19_ReloadedLesson ==
  /\ last.op = "add_lesson"
  /\ Len(memory.lessons) = MEM_LIMIT
  /\ memory.lessons[MEM_LIMIT - 1] = OldLesson(MEM_LIMIT)
  /\ json_dumps(memory) # NoStore
  /\ get_lessons(mem_load(json_dumps(memory)), 1) = <<last.text>>

\* Limits a reader may pass.
ReadLimits == {0, 1, 2, MEM_LIMIT + 50}
\* The min(limit, n) most recent entries of a list, oldest first.
MostRecent(lst, limit) == SubSeq(lst, Len(lst) - Min2(limit, Len(lst)) + 1, Len(lst))

\* C20: for every limit >= 0, get_lessons(limit) returns exactly the
\* min(limit, n) most recent lessons in chronological order, and so do
\* get_user_notes and get_trade_history; limit = 0 returns an empty list.
C20_ReadsMostRecent ==
  \A limit \in ReadLimits :
    LET lessons == MostRecent(memory.lessons, limit)
        notes   == MostRecent(memory.session_notes, limit)
    IN  /\ get_lessons(memory, limit) = [i \in 1..Len(lessons) |-> lessons[i].lesson]
        /\ get_user_notes(memory, limit) = [i \in 1..Len(notes) |-> notes[i].note]
        /\ get_trade_history(trade_log, limit) = MostRecent(trade_log, limit)
        /\ limit = 0 => get_lessons(memory, limit) = <<>>

\* The multiplier, in tenths, that a win rate of wins/total (compared exactly
\* when exact, after rounding to one decimal otherwise) selects.
Tier(st, exact) ==
  LET total == st.wins + st.losses
      rate  == IF exact THEN (st.wins * 100000) \div total ELSE WinRatePct(st)
      below == IF exact THEN st.wins * 100 < 40 * total ELSE rate < 40000
      ge70  == IF exact THEN st.wins * 100 >= 70 * total ELSE rate >= 70000
      ge55  == IF exact THEN st.wins * 100 >= 55 * total ELSE rate >= 55000
  IN  IF ge70 THEN 15 ELSE IF ge55 THEN 12 ELSE IF below THEN 5 ELSE 10
\* max(0.01, min(base*m, base*2, balance*0.1)), in lamports.
SizeFormula(base_sol, sol_balance, m10) ==
  Max2(LAMPORTS_PER_SOL \div 100,
       Min2(Min2((base_sol * m10) \div 10, base_sol * 2), sol_balance \div 10))
SizeAsked == last.base_sol > 0

\* C21 as stated: suggest_trade_size returns base unchanged with fewer than 5
\* closed trades, and otherwise exactly max(0.01, min(base*m, base*2,
\* balance*0.1)) with m = 1.5 for a win rate >= 70%, 1.2 for >= 55%, 0.5 for
\* < 40%, else 1.0.
C21_SizeExact ==
  SizeAsked =>
    IF stats.wins + stats.losses < 5 THEN last.result = last.base_sol
    ELSE last.result = SizeFormula(last.base_sol, last.sol_balance, Tier(stats, TRUE))

\* C21, amended: base unchanged with fewer than 5 closed trades; otherwise
\* max(0.01, min(base*m, base*2, balance*0.1)) rounded to 4 decimals, with m
\* chosen by the win rate rounded to one decimal: 1.5 for >= 70.0, 1.2 for
\* >= 55.0, 0.5 for < 40.0, else 1.0 (exactly 70% uses 1.5, exactly 55% uses
\* 1.2, exactly 40% uses 1.0).
C21_SizeRounded ==
  SizeAsked =>
    /\ IF stats.wins + stats.losses < 5 THEN last.result = last.base_sol
       ELSE last.result =
              RoundHalfEven(SizeFormula(last.base_sol, last.sol_balance,
                                        Tier(stats, FALSE)),
                            LAMPORTS_PER_SOL \div 10000)
    /\ (stats.wins = 7 /\ stats.losses = 3) => Tier(stats, FALSE) = 15
    /\ (stats.wins = 11 /\ stats.losses = 9) => Tier(stats, FALSE) = 12
    /\ (stats.wins = 4 /\ stats.losses = 6) => Tier(stats, FALSE) = 10
    /\ (stats.wins = 3 /\ stats.losses = 7) => Tier(stats, FALSE) = 5

\* With 11 wins in 20 trades (55%) a base of 0.0123 SOL is scaled by 1.2 to
\* 0.01476 and returned as 0.0148.
C21_RoundedSize ==
  /\ stats.wins = 11 /\ stats.losses = 9
  /\ last.base_sol = 12300000 /\ last.sol_balance = 1500000000
  /\ last.result = 14800000

\* The adjustments of the score table, each on its own.
AdjPressure(t) ==
  LET buys == t.buy_count_5m  total == t.buy_count_5m + t.sell_count_5m
  IN  IF total = 0 THEN 0
      ELSE IF 10 * buys >= 7 * total THEN 20
      ELSE IF 10 * buys >= 6 * total THEN 10
      ELSE IF 10 * buys < 4 * total THEN -15
      ELSE 0
AdjChange(pc, limit) == IF pc > limit THEN 10 ELSE IF pc < -limit THEN -10 ELSE 0
AdjLiquidity(t) ==
  IF t.liquidity_usd > 200 THEN 10 ELSE IF t.liquidity_usd > 100 THEN 5 ELSE 0
AdjVelocity(t) ==
  IF t.liquidity_usd <= 0 THEN 0
  ELSE IF t.volume_24h > 5 * t.liquidity_usd THEN 5
  ELSE IF 2 * t.volume_24h < t.liquidity_usd THEN -5
  ELSE 0
TableScore(t) ==
  LET sum == 50 + AdjPressure(t) + AdjChange(t.price_change_5m, 5)
                + AdjChange(t.price_change_1h, 10) + AdjLiquidity(t) + AdjVelocity(t)
  IN  IF sum < 0 THEN 0 ELSE IF sum > 100 THEN 100 ELSE sum
\* buy ratio 0.8, +6% in 5m, +15% in 1h, liquidity 250k, velocity 6.
MaximalSignal == Info("T1", 100, Strong)

\* C22: _compute_trend_score returns clamp(50 + buy-pressure + 5m-change +
\* 1h-change + liquidity + velocity adjustments, 0, 100), every adjustment
\* applied on its own (none without transactions, velocity only with
\* liquidity > 0); so 0 <= score <= 100, and the maximal-signal token scores
\* exactly 100.
C22_ScoreTable ==
  last.score # NoScore =>
    /\ last.score = TableScore(last.token)
    /\ 0 <= last.score /\ last.score <= 100
    /\ last.token = MaximalSignal => last.score = 100

\* The maximal-signal token (adjustments adding up to 105) was scored 100.
C22_MaximalScored ==
  /\ last.token = MaximalSignal
  /\ last.score = 100
  /\ 50 + AdjPressure(last.token) + 10 + 10 + AdjLiquidity(last.token)
        + AdjVelocity(last.token) = 105

\* Log entries of a token, and whether entry i is its newest one.
LogFor(log, tok) == { i \in SeqIdx(log) : log[i].token = tok }
NewestFor(log, tok, i) == i \in LogFor(log, tok) /\ \A j \in LogFor(log, tok) : j <= i

Opened == SeqIdx(positions') \ SeqIdx(positions)
\* Entry i of a scan answer is among the 5 highest-scoring non-avoided ones
\* (equal scores rank in the order of the answer).
InTopFive(mem, tokens, i) ==
  LET free == { j \in SeqIdx(tokens) : ~Listed(mem, tokens[j].address) }
      ahead == { j \in free :
                   \/ TableScore(tokens[j]) > TableScore(tokens[i])
                   \/ TableScore(tokens[j]) = TableScore(tokens[i]) /\ j < i }
  IN  i \in free /\ Cardinality(ahead) < TOP_N
\* score >= min_trend_score, no LOW_LIQ or LOW_VOL flag, buy percentage >= 60.
AutoBuyable(t) ==
  /\ TableScore(t) >= config.min_trend_score
  /\ t.liquidity_usd >= risk.min_liquidity_usd
  /\ t.volume_24h >= risk.min_volume_24h_usd
  /\ t.buy_count_5m + t.sell_count_5m > 0
  /\ 100 * t.buy_count_5m >= 60 * (t.buy_count_5m + t.sell_count_5m)
\* What the claim says of the tokens a scan buys, the count aside.
AutoBuyChoice ==
  /\ \A j \in Opened :
       \E tokens \in ScanWideAnswers \cup ScanAnswers :
         \E i \in SeqIdx(tokens) :
           /\ tokens[i].address = positions'[j].token_address
           /\ InTopFive(memory, tokens, i)
           /\ AutoBuyable(tokens[i])
  /\ ~autonomous => UNCHANGED pmvars

\* C24: one scan cycle opens at most 3 positions by auto-buy; every token it
\* buys is among the 5 highest-scoring non-avoided ones, has a score of at
\* least min_trend_score, no LOW_LIQ or LOW_VOL flag and a buy percentage of
\* at least 60; with autonomous mode off the scan opens no position and
\* changes no position, log or stats.
C24_AutoBuyLimits ==
  [][ last'.op = "scan" =>
        /\ Cardinality(Opened) <= MAX_AUTO_BUYS
        /\ AutoBuyChoice ]_vars

\* The side=buy reviews a step appends for a token.
BuyReviews(tok) ==
  { k \in ReviewedNow : /\ memory'.trade_reviews[k].side = "buy"
                        /\ memory'.trade_reviews[k].token = tok }

\* C25: every auto-buy that opens a position during a scan cycle is recorded
\* as exactly one trade review with side=buy, pnl_sol = 0 and pnl_pct = 0 for
\* the token, and a blocked or failed attempt records none: the new buy
\* reviews of a cycle are as many as the positions it opened.
C25_OneReviewPerAutoBuy ==
  [][ last'.op = "scan" =>
        /\ \A j \in Opened :
             /\ Cardinality(BuyReviews(positions'[j].token_address)) = 1
             /\ \A k \in BuyReviews(positions'[j].token_address) :
                  /\ memory'.trade_reviews[k].pnl_sol = 0
                  /\ memory'.trade_reviews[k].pnl_pct = 0
        /\ \A k \in ReviewedNow :
             /\ memory'.trade_reviews[k].side = "buy"
             /\ \E j \in Opened :
                  positions'[j].token_address = memory'.trade_reviews[k].token
        /\ Cardinality(ReviewedNow) = Cardinality(Opened) ]_vars

\* C26: a sell for a token without an open position asks for no quote and no
\* swap and leaves positions, log, stats and memory as they are; a sell that
\* succeeds closes exactly one open position of the token, with status
\* 'closed', and records exactly one trade review, with side=sell; a sell
\* whose signing or submission fails leaves the position open and the stats
\* unchanged.
C26_SellOutcomes ==
  [][ /\ \A tok \in Tokens :
           OpenFor(positions, tok) = {} =>
             _execute_sell(PM, memory, tok, now, dry_run)
               = {SellRes(PM, memory, "no_position", {})}
      /\ (last'.op = "sell" /\ now' = now) =>
           /\ last'.result = "no_position" =>
                 /\ last'.calls = {}
                 /\ UNCHANGED <<pmvars, memory>>
           /\ last'.result = "ok" =>
                 /\ Cardinality(ClosedNow) = 1
                 /\ Opened = {}
                 /\ Cardinality(ReviewedNow) = 1
                 /\ \A i \in ClosedNow, k \in ReviewedNow :
                      /\ positions'[i].status = "closed"
                      /\ i = FirstOpen(positions, positions[i].token_address)
                      /\ memory'.trade_reviews[k].side = "sell"
                      /\ memory'.trade_reviews[k].token = positions[i].token_address
                 /\ Cardinality(SellIdx(trade_log')) = Cardinality(SellIdx(trade_log)) + 1
           /\ last'.result = "error_sign" =>
                 /\ SND \notin last'.calls \/ ~dry_run
                 /\ UNCHANGED <<pmvars, memory>> ]_vars

\* In live mode the signing or submission of a sell failed: the position is
\* still open and nothing was recorded.
C26_FailedSellKeepsPosition ==
  /\ ~dry_run
  /\ last.op = "sell" /\ last.result = "error_sign"
  /\ OpenIdx(positions) # {}
  /\ stats.wins + stats.losses = 0
  /\ memory.trade_reviews = <<>>

\* C27: validation errors have no side effect.  In every state a swap with a
\* missing token_address, with amount_sol <= 0 or with a side other than buy
\* and sell, a set_limits with a missing token_address and a learn with an
\* empty note each have one outcome: an error result, no collaborator call,
\* and the positions, log, stats and memory as they were; and every step
\* that returns one of these errors leaves them unchanged.
ValidationErrors ==
  {"error_token_required", "error_amount", "error_side", "error_note_required"}
C27_ValidationNoSideEffect ==
  [][ /\ \A tok \in ArgTokens, amt \in ArgAmounts, side \in ArgSides :
           (tok = "" \/ amt <= 0 \/ side \notin {"buy", "sell"}) =>
             \E err \in ValidationErrors :
               _swap(PM, memory, tok, amt, side, now, dry_run)
                 = {ArgRes(PM, memory, err, {}, <<>>)}
      /\ \A lim \in Limits :
           _set_limits(PM, memory, "", lim.sl, lim.tp)
             = ArgRes(PM, memory, "error_token_required", {}, <<>>)
      /\ _learn(PM, memory, <<>>, now)
           = ArgRes(PM, memory, "error_note_required", {}, <<>>)
      /\ last'.result \in ValidationErrors =>
           /\ last'.calls = {}
           /\ UNCHANGED <<pmvars, memory>> ]_vars
\* A learn without a note is refused while a position is open and a note is
\* already stored.
C27_RefusedWithState ==
  /\ last.op = "learn"
  /\ last.result = "error_note_required"
  /\ OpenIdx(positions) # {}
  /\ memory.session_notes # <<>>

\* C28: when the backing store is unreadable or corrupt at load time, the
\* PositionManager continues with no positions, an empty log and zero stats,
\* and the StrategyMemory with empty collections; neither keeps a partially
\* loaded state.
C28_CorruptLoadsEmpty ==
  [][ (last.op = "init" /\ last'.op = "load") =>
        /\ last'.result \in {"corrupt_positions", "corrupt_both"} =>
             /\ positions' = EmptyPM.positions
             /\ trade_log' = EmptyPM.trade_log
             /\ stats' = EmptyPM.stats
        /\ last'.result \in {"corrupt_memory", "corrupt_both"} =>
             memory' = EmptyMemory ]_vars

C30_ExitFailureIsLocal ==
  [][ (last'.op = "check_exits" /\ last'.result = "exits" /\ now' = now) =>
        LET trig == last'.triggered  lines == last'.lines IN
        /\ Len(lines) = Len(trig)
        /\ Len(positions') = Len(positions)
        /\ \A k \in 1..Len(trig) :
             LET i == trig[k] IN
             /\ lines[k].idx = i
             /\ positions[i].status = "open"
             /\ lines[k].result # "no_position"
             /\ lines[k].result = "ok" =>
                  positions'[i].status = "closed" /\ lines[k].line = "AUTO-SOLD"
             /\ lines[k].result # "ok" => positions'[i] = positions[i]
             /\ lines[k].result = "raised" <=> lines[k].line = "AUTO-SELL FAILED"
        /\ \A i \in 1..Len(positions) :
             (\A k \in 1..Len(trig) : trig[k] # i) => positions'[i] = positions[i] ]_vars
\* Two positions were triggered in one cycle: the sell of the first failed
\* and it is still open, the second was sold and is closed.
C30_OneFailedOtherSold ==
  /\ last.op = "check_exits"
  /\ Len(last.lines) = 2
  /\ last.lines[1].result # "ok"
  /\ last.lines[2].result = "ok"
  /\ positions[last.lines[1].idx].status = "open"
  /\ positions[last.lines[2].idx].status = "closed"

\* C31: with two buys interleaved at their await points and every store
\* mutation serialized, the gate's guarantees still hold: at most one open
\* position per token, and the SOL in open positions within max_portfolio_sol.
C31_GateHoldsInterleaved ==
  /\ \A tok \in Tokens : Cardinality(OpenFor(positions, tok)) <= 1
  /\ get_total_sol_invested(positions) <= risk.max_portfolio_sol

\* C32: close_position for a token with no open position returns None and
\* leaves the positions list, the trade log, the stats and the persisted
\* store unchanged.
C32_CloseWithoutPosition ==
  [][ (last'.op = "close_position" /\ now' = now
       /\ OpenFor(positions, last'.token) = {}) =>
        /\ last'.returned = <<>>
        /\ UNCHANGED pmvars
        /\ last'.store = last.store ]_vars
\* A close that returned None for a token whose only position was closed
\* before, with a store on disk.
C32_ClosedTwice ==
  /\ last.op = "close_position"
  /\ last.returned = <<>>
  /\ last.store # NoStore
  /\ \E i \in ClosedIdx(positions) : positions[i].token_address = last.token

\* C33: when several open positions exist for the same token, close_position
\* closes exactly the first one in storage order and leaves every other
\* position unchanged; it adds exactly one sell log entry and one win-or-loss
\* increment.
C33_ClosesFirstOnly ==
  [][ (last'.op = "close_position" /\ now' = now
       /\ OpenFor(positions, last'.token) # {}) =>
        LET S == OpenFor(positions, last'.token)
            i == CHOOSE k \in S : \A j \in S : k <= j
        IN  /\ positions' = [positions EXCEPT ![i].status = last'.reason]
            /\ last'.returned = <<positions'[i]>>
            /\ Len(trade_log') = Len(trade_log) + 1
            /\ SubSeq(trade_log', 1, Len(trade_log)) = trade_log
            /\ trade_log'[Len(trade_log')].action = "sell"
            /\ trade_log'[Len(trade_log')].token = last'.token
            /\ stats'.wins >= stats.wins
            /\ stats'.losses >= stats.losses
            /\ stats'.wins + stats'.losses = stats.wins + stats.losses + 1 ]_vars
\* Of two positions of the token that were open, the close took the first:
\* it is closed and a later one is still open.
C33_FirstOfTwoClosed ==
  /\ last.op = "close_position"
  /\ last.returned # <<>>
  /\ \E i, j \in SeqIdx(positions) :
       /\ i < j
       /\ positions[i] = last.returned[1]
       /\ positions[i].status # "open"
       /\ positions[j].token_address = last.token
       /\ positions[j].status = "open"
       /\ \A k \in 1..(i - 1) : positions[k].token_address # last.token

LimitPcts == {0 - 5, 0, 20}
SameButLimits(p, q) ==
  [p EXCEPT !.stop_loss_price = 0, !.take_profit_price = 0]
    = [q EXCEPT !.stop_loss_price = 0, !.take_profit_price = 0]
C35_SetLimitsFrame ==
  [][ /\ \A tok \in Tokens, sl \in LimitPcts, tp \in LimitPcts :
           LET r == _set_limits(PM, memory, tok, sl, tp)
               i == FirstOpen(positions, tok)
           IN  /\ r.mem = memory
               /\ r.pm.trade_log = trade_log
               /\ r.pm.stats = stats
               /\ Len(r.pm.positions) = Len(positions)
               /\ \A j \in SeqIdx(positions) : j # i => r.pm.positions[j] = positions[j]
               /\ i = 0 => r.result = "no_position"
               /\ i # 0 =>
                    /\ SameButLimits(r.pm.positions[i], positions[i])
                    /\ sl <= 0 => r.pm.positions[i].stop_loss_price
                                    = positions[i].stop_loss_price
                    /\ tp <= 0 => r.pm.positions[i].take_profit_price
                                    = positions[i].take_profit_price
      /\ (last'.op = "set_limits" /\ now' = now) =>
           /\ UNCHANGED <<trade_log, stats, memory>>
           /\ Len(positions') = Len(positions)
           /\ \A j \in SeqIdx(positions) :
                /\ SameButLimits(positions'[j], positions[j])
                /\ positions'[j] # positions[j] =>
                     /\ last'.result = "ok"
                     /\ j = FirstOpen(positions, positions[j].token_address) ]_vars
\* set_limits with stop_loss_pct = 20 and take_profit_pct = 0 moved the stop
\* of the open position and left its take-profit and the closed position
\* before it alone.
C35_StopMovedOnly ==
  /\ last.op = "set_limits"
  /\ last.result = "ok"
  /\ Len(positions) = 2
  /\ positions[1].status # "open"
  /\ positions[2].status = "open"
  /\ positions[2].stop_loss_price = StopLossPrice(positions[2].entry_price_usd, 20)
  /\ positions[2].take_profit_price
       = TakeProfitPrice(positions[2].entry_price_usd, risk.take_profit_pct)

\* C36: the trade size a scan cycle passes to its auto-buys,
\* suggest_trade_size(risk.max_position_sol, balance), never exceeds
\* risk.max_position_sol for any win/loss record and balance, so the gate's
\* position-size check never rejects an auto-buy candidate.
C36_ScanSizeWithinMax ==
  \A sol_balance \in SizeBalances :
    LET size == suggest_trade_size(stats, risk.max_position_sol, sol_balance)
    IN  /\ size <= risk.max_position_sol
        /\ ~PositionTooLarge(size, risk)

\* C37: in simulation mode an exit check counts every position it closes as
\* stopped_out as a loss and every position it closes as took_profit as a
\* win, whatever the entry price (0 included).
NewlyClosed(reason) ==
  { i \in OpenIdx(positions) : positions'[i].status = reason }
C37_ExitReasonMatchesStats ==
  [][ (dry_run /\ last'.op = "check_exits" /\ now' = now)
      => /\ stats'.losses - stats.losses = Cardinality(NewlyClosed("stopped_out"))
         /\ stats'.wins - stats.wins = Cardinality(NewlyClosed("took_profit")) ]_vars

\* C38: the slippage handed to the routing quote by an executed swap (manual
\* buy or sell, auto-buy, live auto-exit) never exceeds
\* risk.max_slippage_bps, whatever slippage_bps the caller supplies, and a
\* caller value of 0 gives the configured maximum.
C38_SlippageCapped ==
  /\ \A slippage_bps \in SlippageArgs :
       slippage(slippage_bps, risk) <= risk.max_slippage_bps
  /\ slippage(0, risk) = risk.max_slippage_bps
  /\ \A k \in 1..Len(last.handed) : last.handed[k] <= risk.max_slippage_bps
  /\ (last.op = "swap" /\ last.slippage_bps = 0)
       => last.handed = <<risk.max_slippage_bps>>
\* A live buy asked for with 500 bps went through with 300.
C38_AskedAboveMax ==
  /\ last.op = "swap" /\ last.side = "buy" /\ last.result = "ok"
  /\ ~dry_run
  /\ last.slippage_bps = 500
  /\ last.handed = <<300>>
  /\ OpenIdx(positions) # {}

\* C39: chat makes at most 3 completion attempts and then returns; it sleeps
\* (at most 60 seconds) and tries again only after an attempt that failed
\* with a rate-limit error while attempts remain, and any other failure
\* returns an error response at once.
ChatStepOK ==
  LET c == last'.seen[Len(last'.seen)] IN
  (last.pc = "attempt" /\ last'.pc # "attempt") =>
    /\ last'.seen = Append(last.seen, c)
    /\ last'.pc = "sleep" <=>
         (c.kind = "raise" /\ IsRateLimit(c.err) /\ Len(last'.seen) < max_retries)
    /\ (c.kind = "raise" /\ ~IsRateLimit(c.err)) =>
         /\ last'.pc = "done"
         /\ last'.response = ErrorCallingLLM(c.err)
         /\ last'.response.finish_reason = "error"
    /\ last'.pc = "sleep" =>
         /\ last'.waits = Append(last.waits, last'.waits[Len(last'.waits)])
         /\ last'.waits[Len(last'.waits)] <= 600
    /\ last'.pc = "done" => last'.waits = last.waits
C39_ChatBounded ==
  /\ [](/\ Len(last.seen) <= max_retries
        /\ Len(last.waits) <= max_retries - 1
        /\ \A k \in 1..Len(last.waits) : last.waits[k] <= 600
        /\ last.pc = "done" => last.response # NoResponse)
  /\ [][ /\ ChatStepOK
         /\ (last.pc = "done" /\ last'.pc = "done") => last' = last
         /\ last.pc = "sleep" => (last'.seen = last.seen /\ last'.waits = last.waits) ]_vars
  /\ [](last.pc \in {"attempt", "sleep"} => <>(last.pc = "done"))
\* Two rate limits, the second asking for 75.5 s, then a completion.
C39_ThirdAttemptAnswered ==
  /\ last.pc = "done"
  /\ Len(last.seen) = max_retries
  /\ last.waits = <<300, 600>>
  /\ last.response.finish_reason = "stop"

\* C40: when all 3 attempts fail with rate-limit errors, chat returns the
\* response 'Rate limited after retries. Try again shortly.' with
\* finish_reason 'error'.
C40_RateLimitedMessage ==
  ( /\ last.pc = "done"
    /\ Len(last.seen) = max_retries
    /\ \A k \in 1..Len(last.seen) :
         last.seen[k].kind = "raise" /\ IsRateLimit(last.seen[k].err) )
  => last.response = RateLimitedAfterRetries

====
